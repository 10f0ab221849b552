----------------------- MODULE ParallelScan_proofs -----------------------
(***************************************************************************)
(* The parallel scan, for any number of workers, partitions, pages, rows   *)
(* and scans: which numbers of partitions make the division panic; where   *)
(* it does not, the closed form of the page ranges is what the loop of the *)
(* code computes, and they partition the heap; the state is well typed; a  *)
(* scan that returns has read every row nobody wrote meanwhile exactly     *)
(* once, in page order; a scan is refused for a dead worker only when the  *)
(* driver killed one; and every step is one of TableScan's or none.        *)
(***************************************************************************)
EXTENDS ParallelScan, FiniteSetTheorems, TLAPS

---------------------------------------------------------------------------
(* The inductive invariant *)

(* Ranges in page order that do not overlap and leave no page out.         *)
Split(rs) ==
    /\ rs \in Seq((0..MaxPage) \X (0..MaxPage))
    /\ \A a \in DOMAIN rs : \A b \in DOMAIN rs : a < b => rs[a][2] <= rs[b][1]
    /\ \A page \in 0..(MaxPage - 1) : \E i \in DOMAIN rs : InRange(page, rs[i])

(* What one read of a range may have seen of a table whose rows have been  *)
(* at these places meanwhile: a row only if it was somewhere in the range, *)
(* and all of those that stayed there.                                     *)
Seen(rows, been, range) ==
    /\ rows \subseteq Rows
    /\ \A r \in rows : \E p \in been[r] : InRange(p, range)
    /\ \A r \in Rows : \A p \in been[r] : been[r] = {p} /\ InRange(p, range) => r \in rows

(* The replies received are the first ones, each of them of its range.     *)
Received(rs, been, got) ==
    /\ Split(rs) /\ Len(got) <= Len(rs)
    /\ \A i \in DOMAIN got : Seen(got[i], been, rs[i])

NewInv(s) == ranges[s] = <<>> /\ replies[s] = <<>> /\ result[s] = <<>>

RunningInv(s) ==
    /\ Received(ranges[s], places[s], result[s])
    /\ Len(result[s]) <= Len(replies[s]) /\ Len(replies[s]) <= Len(ranges[s])
    /\ \A r \in Rows : place[r] \in places[s][r]
    /\ \A i \in DOMAIN replies[s] :
          /\ replies[s][i].state = "taken" <=> i <= Len(result[s])
          /\ replies[s][i].state = "rows" => Seen(replies[s][i].rows, places[s], ranges[s][i])
          /\ replies[s][i].state = "dropped" => panics > 0

EndedInv(s) ==
    /\ replies[s] = <<>>
    /\ scan[s] = "done" =>
          \E rs : Received(rs, places[s], result[s]) /\ Len(result[s]) = Len(rs)
    /\ scan[s] # "done" => result[s] = <<>>
    /\ scan[s] \in {"worker_gone", "reply_dropped"} => panics > 0

ScanInv(s) ==
    /\ scan[s] = "new" => NewInv(s)
    /\ scan[s] = "running" => RunningInv(s)
    /\ scan[s] \notin {"new", "running"} => EndedInv(s)

(* A job in a channel is the only one of its part, and while its scan runs *)
(* it still owes that part's reply.                                        *)
Owed(job) ==
    /\ scan[job.scan] # "new"
    /\ scan[job.scan] = "running" =>
          /\ job.part \in DOMAIN replies[job.scan]
          /\ replies[job.scan][job.part].state = "pending"
          /\ job.range = ranges[job.scan][job.part]
SamePart(a, b) == a.scan = b.scan /\ a.part = b.part

QueueInv ==
    /\ \A w \in Pool : \A k \in DOMAIN queue[w] : Owed(queue[w][k])
    /\ \A w \in Pool : \A x \in Pool : \A k \in DOMAIN queue[w] : \A l \in DOMAIN queue[x] :
          SamePart(queue[w][k], queue[x][l]) => w = x /\ k = l

PoolInv == \A w \in Pool : worker[w] = "gone" => panics > 0

IInv == TypeOK /\ PoolInv /\ QueueInv /\ \A s \in Scans : ScanInv(s)

---------------------------------------------------------------------------
(* The page ranges *)

(* Euclidean division by a positive divisor.                               *)
LEMMA DivBounds ==
    ASSUME NEW n \in Nat, NEW c \in Nat \ {0}
    PROVE  /\ n \div c \in Nat
           /\ c * (n \div c) <= n
           /\ n < c * (n \div c) + c
<1>1. n = c * (n \div c) + (n % c) /\ n % c \in 0..(c - 1) /\ n \div c \in Int
    OBVIOUS
<1>2. n \div c >= 0
    OBVIOUS
<1> QED BY <1>1, <1>2

(* Chunks that start at multiples of c are in order and do not overlap.    *)
LEMMA MultiplesMonotone ==
    ASSUME NEW c \in Nat, NEW i \in Nat, NEW j \in Nat, i <= j
    PROVE  i * c <= j * c /\ i * c \in Nat /\ j * c \in Nat
<1>1. j - i \in Nat
    OBVIOUS
<1>2. j * c = i * c + (j - i) * c /\ (j - i) * c >= 0
    BY <1>1
<1> QED BY <1>2

(* The conversion to u32 keeps a number below 2^32, and loses it above.    *)
LEMMA AsU32Facts ==
    ASSUME NEW n \in Nat
    PROVE  /\ AsU32(n) \in 0..MaxPage
           /\ n <= MaxPage => AsU32(n) = n
<1>1. MaxPage + 1 \in Nat \ {0} /\ MaxPage \in Nat
    BY MaxPageAssumption
<1>2. n % (MaxPage + 1) \in 0..MaxPage
    BY <1>1
<1>3. n <= MaxPage => n % (MaxPage + 1) = n
    BY <1>1
<1> QED BY <1>2, <1>3 DEF AsU32

(* The division of ctid_ranges (partition.rs:15-16) panics for the numbers *)
(* of partitions that truncate to zero, the multiples of 2^32, and for no  *)
(* other: never for one that fits a u32, nor for an empty table.           *)
THEOREM DividesByZeroExactly ==
    ASSUME NEW pages \in 0..MaxPage, NEW partitions \in Nat
    PROVE  /\ DividesByZero(pages, partitions) <=>
                 pages # 0 /\ partitions # 0 /\ partitions % (MaxPage + 1) = 0
           /\ partitions <= MaxPage => ~DividesByZero(pages, partitions)
<1>1. MaxPage \in Nat \ {0} /\ pages \in Nat
    BY MaxPageAssumption
<1> DEFINE asked == AtLeast(1, partitions)
           kept == AsU32(asked)
<1>2. /\ asked \in Nat \ {0} /\ (partitions # 0 => asked = partitions)
      /\ partitions = 0 => asked = 1
    BY DEF AtLeast
<1> HIDE DEF asked
<1>3. kept \in Nat /\ (asked <= MaxPage => kept = asked)
    BY <1>1, <1>2, AsU32Facts
<1>4. partitions # 0 => kept = partitions % (MaxPage + 1)
    BY <1>2 DEF AsU32
<1> HIDE DEF kept
<1>5. partitions = 0 => kept = 1
    BY <1>1, <1>2, <1>3
<1>6. Divisor(pages, partitions) = AtMost(pages, kept)
    BY DEF Divisor, kept, asked
<1>7. DividesByZero(pages, partitions) <=> pages # 0 /\ kept = 0
    BY <1>1, <1>3, <1>6 DEF DividesByZero, AtMost
<1>8. partitions <= MaxPage => asked <= MaxPage
    BY <1>1, <1>2
<1>9. partitions <= MaxPage => kept # 0
    BY <1>2, <1>3, <1>8
<1> QED BY <1>4, <1>5, <1>7, <1>9

(* A range has at least one page.                                          *)
LEMMA ChunkPositive ==
    ASSUME NEW pages \in Nat \ {0}, NEW partitions \in Nat,
           ~DividesByZero(pages, partitions)
    PROVE  ChunkPages(pages, partitions) \in Nat \ {0}
<1> DEFINE p == Divisor(pages, partitions)
<1>1. AtLeast(1, partitions) \in Nat
    BY DEF AtLeast
<1>2. AsU32(AtLeast(1, partitions)) \in Nat
    BY <1>1, AsU32Facts
<1>3. p \in Nat
    BY <1>2 DEF Divisor, AtMost
<1>4. p # 0
    BY DEF DividesByZero
<1> HIDE DEF p
<1>5. pages \div p \in Nat
    BY <1>3, <1>4, DivBounds
<1>6. AtLeast(1, pages \div p) \in Nat \ {0}
    BY <1>5 DEF AtLeast
<1> QED BY <1>6 DEF ChunkPages, p

(* The last chunk is the one the page count ends in.                       *)
LEMMA CountBounds ==
    ASSUME NEW pages \in Nat \ {0}, NEW c \in Nat \ {0}
    PROVE  LET n == RangeCount(pages, c)
           IN n \in Nat \ {0} /\ (n - 1) * c < pages /\ pages <= n * c
<1> DEFINE n == RangeCount(pages, c)
<1>1. n \in Nat /\ c * n <= pages + c - 1 /\ pages + c - 1 < c * n + c
    BY DivBounds DEF RangeCount
<1> HIDE DEF n
<1>2. c * n = n * c /\ (n - 1) * c = n * c - c
    BY <1>1
<1>3. n # 0
    BY <1>1
<1> QED BY <1>1, <1>2, <1>3 DEF n

(* Every set of numbers that is not empty has a least one.                 *)
LEMMA LeastNumber ==
    ASSUME NEW T \in SUBSET Nat, T # {}
    PROVE  \E n \in T : \A m \in T : n <= m
<1> DEFINE R == OpToRel(<, Nat)
<1>1. \A x, y \in Nat : x < y => <<x, y>> \in R
    BY DEF OpToRel
<1>2. IsWellFoundedOn(R, Nat)
    BY NatLessThanWellFounded, Zenon
<1> HIDE DEF R
<1>3. PICK n \in T : \A m \in T : ~(<<m, n>> \in R)
    BY <1>2, WFMin
<1>4. \A m \in T : m \in Nat /\ n \in Nat /\ ~(m < n)
    BY <1>1, <1>3
<1> QED BY <1>4

(* What the loop pushes from lo on, in closed form.                        *)
Pushed(lo, c) == <<lo, SaturatingAdd(lo, c)>>
PushedFrom(pages, c, lo) ==
    IF lo >= pages THEN <<>>
    ELSE [i \in 1..RangeCount(pages - lo, c) |-> Pushed(lo + (i - 1) * c, c)]

(* A number of chunks is the only one that ends where the count does.      *)
LEMMA CountIsUnique ==
    ASSUME NEW c \in Nat \ {0}, NEW k \in Nat, NEW m \in Nat, NEW n \in Nat,
           (m - 1) * c < k, k <= m * c, (n - 1) * c < k, k <= n * c
    PROVE  m = n
<1>1. ASSUME NEW a \in Nat, NEW b \in Nat, (b - 1) * c < k, k <= a * c PROVE b <= a
    <2> SUFFICES ASSUME a <= b - 1 PROVE FALSE
        BY <1>1
    <2>1. b - 1 \in Nat
        OBVIOUS
    <2>2. a * c <= (b - 1) * c /\ a * c \in Nat /\ (b - 1) * c \in Nat
        BY <2>1, MultiplesMonotone
    <2> QED BY <1>1, <2>2
<1>2. m <= n
    BY <1>1
<1>3. n <= m
    BY <1>1
<1> QED BY <1>2, <1>3

(* A sequence that is x and then s.                                        *)
LEMMA Prepended ==
    ASSUME NEW S, NEW x \in S, NEW s \in Seq(S), NEW t \in Seq(S), Len(t) = Len(s) + 1,
           t[1] = x, \A i \in 2..Len(t) : t[i] = s[i - 1]
    PROVE  t = <<x>> \o s
<1>1. <<x>> \o s \in Seq(S) /\ Len(<<x>> \o s) = Len(t)
    OBVIOUS
<1>2. ASSUME NEW i \in 1..Len(t) PROVE t[i] = (<<x>> \o s)[i]
    <2>1. CASE i = 1
        BY <2>1
    <2>2. CASE i # 1
        BY <2>2
    <2> QED BY <2>1, <2>2
<1>3. \A r \in Seq(S) : r = [i \in 1..Len(r) |-> r[i]]
    OBVIOUS
<1>4. t = [i \in 1..Len(t) |-> t[i]] /\ <<x>> \o s = [i \in 1..Len(t) |-> (<<x>> \o s)[i]]
    BY <1>1, <1>3
<1> QED BY <1>2, <1>4

(* One turn of the loop pushes the first of them.                          *)
LEMMA OneTurn ==
    ASSUME NEW pages \in 0..MaxPage, NEW c \in Nat \ {0}, NEW lo \in 0..MaxPage, lo < pages
    PROVE  PushedFrom(pages, c, lo) =
               <<Pushed(lo, c)>> \o PushedFrom(pages, c, SaturatingAdd(lo, c))
<1> DEFINE hi == SaturatingAdd(lo, c)
           n == RangeCount(pages - lo, c)
<1>1. MaxPage \in Nat /\ pages \in Nat /\ lo \in Nat /\ pages - lo \in Nat \ {0}
    BY MaxPageAssumption
<1>2. n \in Nat \ {0} /\ (n - 1) * c < pages - lo /\ pages - lo <= n * c
    BY <1>1, CountBounds
<1>3. PushedFrom(pages, c, lo) = [i \in 1..n |-> Pushed(lo + (i - 1) * c, c)]
    BY <1>1 DEF PushedFrom
<1>4. hi \in Nat /\ hi <= MaxPage /\ hi <= lo + c /\ (hi < MaxPage => hi = lo + c)
    BY <1>1 DEF SaturatingAdd, AtMost
<1> HIDE DEF hi, n
<1>5. CASE hi >= pages
    <2>1. pages - lo <= 1 * c /\ (1 - 1) * c < pages - lo
        BY <1>1, <1>4, <1>5
    <2>2. n = 1
        BY <1>1, <1>2, <2>1, CountIsUnique
    <2>3. PushedFrom(pages, c, hi) = <<>>
        BY <1>5 DEF PushedFrom
    <2>4. lo + (1 - 1) * c = lo
        BY <1>1
    <2>5. PushedFrom(pages, c, lo) = <<Pushed(lo, c)>>
        BY <1>3, <2>2, <2>4
    <2> HIDE DEF Pushed
    <2> QED BY <2>3, <2>5 DEF hi
<1>6. CASE hi < pages
    <2> DEFINE m == RangeCount(pages - hi, c)
    <2>1. hi = lo + c /\ pages - hi \in Nat \ {0}
        BY <1>1, <1>4, <1>6
    <2>2. m \in Nat \ {0} /\ (m - 1) * c < pages - hi /\ pages - hi <= m * c
        BY <2>1, CountBounds
    <2>3. PushedFrom(pages, c, hi) = [i \in 1..m |-> Pushed(hi + (i - 1) * c, c)]
        BY <1>4, <1>1, <1>6 DEF PushedFrom
    <2> HIDE DEF m
    <2>4. (m + 1) * c = m * c + c /\ ((m + 1) - 1) * c = (m - 1) * c + c
          /\ m * c \in Nat /\ (m - 1) * c \in Nat
        BY <2>2
    <2>5. n = m + 1
        <3>1. m + 1 \in Nat /\ n \in Nat /\ pages - lo \in Nat
            BY <1>1, <1>2, <2>2
        <3>2. ((m + 1) - 1) * c < pages - lo /\ pages - lo <= (m + 1) * c
            BY <1>1, <2>1, <2>2, <2>4
        <3> QED BY <1>2, <3>1, <3>2, CountIsUnique
    <2>6. ASSUME NEW i \in 2..n PROVE hi + ((i - 1) - 1) * c = lo + (i - 1) * c
        <3>1. i \in Int /\ c \in Int /\ ((i - 1) - 1) * c = (i - 1) * c - c
            BY <1>2
        <3> QED BY <1>1, <2>1, <3>1
    <2>7. lo + (1 - 1) * c = lo
        BY <1>1
    <2> DEFINE first == Pushed(lo, c)
               rest == [i \in 1..m |-> Pushed(hi + (i - 1) * c, c)]
               all == [i \in 1..n |-> Pushed(lo + (i - 1) * c, c)]
               S == {first} \union {rest[i] : i \in 1..m}
    <2>8. \A i \in 1..n : all[i] = IF i = 1 THEN first ELSE rest[i - 1]
        <3> TAKE i \in 1..n
        <3>1. CASE i = 1
            BY <2>7, <3>1
        <3>2. CASE i # 1
            <4>1. i \in 2..n /\ i - 1 \in 1..m
                BY <1>2, <2>2, <2>5, <3>2
            <4>2. rest[i - 1] = Pushed(hi + ((i - 1) - 1) * c, c)
                BY <4>1
            <4> QED BY <2>6, <3>2, <4>1, <4>2
        <3> QED BY <3>1, <3>2
    <2>9. /\ Len(rest) = m /\ rest \in Seq(S) /\ first \in S
          /\ Len(all) = n /\ all \in Seq(S)
        <3>1. rest \in [1..m -> S] /\ first \in S
            OBVIOUS
        <3>2. ASSUME NEW i \in 1..n PROVE all[i] \in S
            <4>1. i # 1 => i - 1 \in 1..m
                BY <2>5, <2>2
            <4> QED BY <2>8, <3>1, <4>1
        <3>3. all \in [1..n -> S]
            BY <3>2
        <3> HIDE DEF first, rest, all, S
        <3> QED BY <1>2, <2>2, <3>1, <3>3
    <2> HIDE DEF first, rest, all, S
    <2>10. /\ first \in S /\ rest \in Seq(S) /\ all \in Seq(S) /\ Len(all) = Len(rest) + 1
           /\ all[1] = first /\ \A i \in 2..Len(all) : all[i] = rest[i - 1]
        BY <1>2, <2>5, <2>8, <2>9
    <2>11. all = <<first>> \o rest
        BY <2>10, Prepended
    <2> QED BY <1>3, <2>3, <2>11 DEF first, rest, all, hi
<1> QED BY <1>1, <1>4, <1>5, <1>6

IsLoop(f, pages, c) ==
    f = [lo \in 0..MaxPage |->
            IF lo >= pages THEN <<>>
            ELSE <<<<lo, SaturatingAdd(lo, c)>>>> \o f[SaturatingAdd(lo, c)]]

LEMMA AddFacts ==
    ASSUME NEW lo \in 0..MaxPage, NEW c \in Nat \ {0}
    PROVE  /\ SaturatingAdd(lo, c) \in 0..MaxPage
           /\ lo < MaxPage => lo < SaturatingAdd(lo, c)
BY MaxPageAssumption DEF SaturatingAdd, AtMost

(* The loop is defined by its closed form, and by no other function.       *)
LEMMA LoopIsClosedForm ==
    ASSUME NEW pages \in 0..MaxPage, NEW c \in Nat \ {0}
    PROVE  Loop(pages, c) = PushedFrom(pages, c, 0)
<1> DEFINE g == [lo \in 0..MaxPage |-> PushedFrom(pages, c, lo)]
           from[lo \in 0..MaxPage] ==
               IF lo >= pages THEN <<>>
               ELSE <<<<lo, SaturatingAdd(lo, c)>>>> \o from[SaturatingAdd(lo, c)]
<1>1. MaxPage \in Nat
    BY MaxPageAssumption
<1>2. IsLoop(g, pages, c)
    <2>1. ASSUME NEW lo \in 0..MaxPage
          PROVE  g[lo] = IF lo >= pages THEN <<>>
                         ELSE <<<<lo, SaturatingAdd(lo, c)>>>> \o g[SaturatingAdd(lo, c)]
        <3>1. CASE lo >= pages
            BY <3>1 DEF PushedFrom
        <3>2. CASE lo < pages
            <4>1. g[lo] = PushedFrom(pages, c, lo)
                  /\ g[SaturatingAdd(lo, c)] = PushedFrom(pages, c, SaturatingAdd(lo, c))
                BY AddFacts
            <4>2. PushedFrom(pages, c, lo) =
                      <<<<lo, SaturatingAdd(lo, c)>>>> \o PushedFrom(pages, c, SaturatingAdd(lo, c))
                BY <3>2, OneTurn DEF Pushed
            <4>3. ~(lo >= pages)
                BY <1>1, <3>2
            <4> HIDE DEF g
            <4> QED BY <4>1, <4>2, <4>3
        <3>3. lo >= pages \/ lo < pages
            BY <1>1
        <3> HIDE DEF g
        <3> QED BY <3>1, <3>2, <3>3
    <2>2. g = [lo \in 0..MaxPage |-> g[lo]]
        OBVIOUS
    <2> HIDE DEF g
    <2> QED BY <2>1, <2>2 DEF IsLoop
<1>3. \E f : IsLoop(f, pages, c)
    BY <1>2
<1>4. IsLoop(from, pages, c)
    BY <1>3 DEF IsLoop
<1>5. Loop(pages, c) = from[0]
    BY DEF Loop
<1>6. g[0] = PushedFrom(pages, c, 0)
    BY <1>1
<1> HIDE DEF from, g
<1>7. from[0] = g[0]
    <2> DEFINE T == {k \in Nat : k <= MaxPage /\ from[MaxPage - k] # g[MaxPage - k]}
    <2> SUFFICES ASSUME T # {} PROVE FALSE
        <3>1. MaxPage \notin T => from[MaxPage - MaxPage] = g[MaxPage - MaxPage]
            BY <1>1
        <3> QED BY <1>1, <3>1
    <2>1. PICK k \in T : \A l \in T : k <= l
        BY LeastNumber
    <2> DEFINE lo == MaxPage - k
               hi == SaturatingAdd(lo, c)
    <2>2. k \in Nat /\ lo \in 0..MaxPage /\ from[lo] # g[lo]
        BY <1>1, <2>1
    <2>3. hi \in 0..MaxPage /\ (lo < MaxPage => lo < hi)
        BY <2>2, AddFacts
    <2>4. /\ from[lo] = IF lo >= pages THEN <<>> ELSE <<<<lo, hi>>>> \o from[hi]
          /\ g[lo] = IF lo >= pages THEN <<>> ELSE <<<<lo, hi>>>> \o g[hi]
        BY <1>2, <1>4, <2>2 DEF IsLoop
    <2> HIDE DEF hi
    <2>5. lo < pages /\ from[hi] # g[hi]
        BY <1>1, <2>2, <2>4
    <2>6. lo < hi
        BY <1>1, <2>2, <2>3, <2>5
    <2>7. MaxPage - hi \in Nat /\ MaxPage - hi < k /\ MaxPage - (MaxPage - hi) = hi
        BY <1>1, <2>2, <2>3, <2>6
    <2>8. MaxPage - hi \in T
        BY <1>1, <2>3, <2>5, <2>7
    <2> QED BY <2>1, <2>2, <2>7, <2>8
<1> QED BY <1>5, <1>6, <1>7

(* The closed form every proof about ranges uses is what the loop of       *)
(* ctid_ranges (partition.rs) computes, for every page count and number of *)
(* partitions for which the division before the loop does not panic.       *)
THEOREM LoopComputesRanges ==
    ASSUME NEW pages \in 0..MaxPage, NEW partitions \in Nat,
           ~DividesByZero(pages, partitions)
    PROVE  LoopRanges(pages, partitions) = ctid_ranges(pages, partitions)
<1>1. CASE pages = 0
    BY <1>1 DEF LoopRanges, ctid_ranges
<1>2. CASE pages # 0
    <2> DEFINE c == ChunkPages(pages, partitions)
               n == RangeCount(pages, c)
               loop == Loop(pages, c)
    <2>1. MaxPage \in Nat /\ pages \in Nat \ {0} /\ pages <= MaxPage
        BY <1>2, MaxPageAssumption
    <2>2. c \in Nat \ {0}
        BY <2>1, ChunkPositive
    <2>3. n \in Nat \ {0}
        BY <2>1, <2>2, CountBounds
    <2>4. LoopRanges(pages, partitions) = [loop EXCEPT ![Len(loop)][2] = MaxPage]
        BY <1>2 DEF LoopRanges
    <2>5. ctid_ranges(pages, partitions) = [i \in 1..n |-> RangeOf(i, n, c)]
        BY <1>2 DEF ctid_ranges
    <2>6. loop = PushedFrom(pages, c, 0)
        BY <2>2, LoopIsClosedForm
    <2> HIDE DEF c, loop
    <2>7. ~(0 >= pages) /\ pages - 0 = pages
        BY <2>1
    <2>8. loop = [i \in 1..n |-> Pushed(0 + (i - 1) * c, c)]
        BY <2>6, <2>7 DEF PushedFrom
    <2> HIDE DEF n
    <2>9. \A i \in 1..n : 0 + (i - 1) * c = (i - 1) * c
        BY <2>2, <2>3
    <2>10. \A i \in 1..n : loop[i] = <<(i - 1) * c, SaturatingAdd((i - 1) * c, c)>>
        BY <2>8, <2>9 DEF Pushed
    <2>11. DOMAIN loop = 1..n /\ Len(loop) = n
        BY <2>3, <2>8
    <2>12. \A i \in 1..n : RangeOf(i, n, c) =
               IF i = n THEN <<loop[i][1], MaxPage>> ELSE loop[i]
        BY <2>10 DEF RangeOf
    <2>13. [loop EXCEPT ![n][2] = MaxPage] =
               [i \in 1..n |-> IF i = n THEN [loop[n] EXCEPT ![2] = MaxPage] ELSE loop[i]]
        BY <2>11
    <2>14. n \in 1..n /\ [loop[n] EXCEPT ![2] = MaxPage] = <<loop[n][1], MaxPage>>
        BY <2>3, <2>10
    <2>15. [loop EXCEPT ![Len(loop)][2] = MaxPage] = [loop EXCEPT ![n][2] = MaxPage]
        BY <2>11
    <2>16. \A i \in 1..n : RangeOf(i, n, c) =
               IF i = n THEN [loop[n] EXCEPT ![2] = MaxPage] ELSE loop[i]
        BY <2>12, <2>14
    <2> QED BY <2>4, <2>5, <2>13, <2>15, <2>16
<1> QED BY <1>1, <1>2

(* ctid_ranges splits the heap in page order, whatever the page count.     *)
LEMMA RangesAreSplit ==
    ASSUME NEW pages \in 0..MaxPage, NEW partitions \in Nat,
           ~DividesByZero(pages, partitions)
    PROVE  Split(ctid_ranges(pages, partitions))
<1>1. MaxPage \in Nat \ {0}
    BY MaxPageAssumption
<1>2. CASE pages = 0
    <2>1. ctid_ranges(pages, partitions) = <<<<0, MaxPage>>>>
        BY <1>2 DEF ctid_ranges
    <2> QED BY <1>1, <2>1 DEF Split, InRange
<1>3. CASE pages # 0
    <2> DEFINE c == ChunkPages(pages, partitions)
               n == RangeCount(pages, c)
               ranges0 == ctid_ranges(pages, partitions)
    <2>1. pages \in Nat \ {0} /\ pages <= MaxPage
        BY <1>1, <1>3
    <2>2. c \in Nat \ {0}
        BY <2>1, ChunkPositive
    <2>3. n \in Nat \ {0} /\ (n - 1) * c < pages
        BY <2>1, <2>2, CountBounds
    <2>4. ranges0 = [i \in 1..n |-> RangeOf(i, n, c)]
        BY <1>3 DEF ctid_ranges
    <2> HIDE DEF c, n, ranges0
    <2>5. \A i \in 1..n : /\ ranges0[i] = <<ranges0[i][1], ranges0[i][2]>>
                          /\ ranges0[i][1] = (i - 1) * c
                          /\ (i - 1) * c \in Nat
                          /\ (i - 1) * c <= (n - 1) * c
                          /\ i = n => ranges0[i][2] = MaxPage
                          /\ i # n => /\ ranges0[i][2] = i * c
                                      /\ i * c \in Nat
                                      /\ i * c <= (n - 1) * c
        <3> TAKE i \in 1..n
        <3>1. ranges0[i] = RangeOf(i, n, c)
            BY <2>4
        <3>2. i # n => i \in Nat /\ n - 1 \in Nat /\ i <= n - 1
            BY <2>3
        <3>3. i # n => i * c <= (n - 1) * c /\ i * c \in Nat
            BY <2>2, <3>2, MultiplesMonotone
        <3>4. (i - 1) * c + c = i * c
            BY <2>2, <2>3
        <3>5. i # n => SaturatingAdd((i - 1) * c, c) = i * c
            BY <1>1, <2>1, <2>2, <2>3, <3>2, <3>3, <3>4, MultiplesMonotone
               DEF SaturatingAdd, AtMost
        <3>6. i - 1 \in Nat /\ n - 1 \in Nat /\ i - 1 <= n - 1
            BY <2>3
        <3>7. (i - 1) * c <= (n - 1) * c /\ (i - 1) * c \in Nat
            BY <2>2, <3>6, MultiplesMonotone
        <3> QED BY <3>1, <3>3, <3>5, <3>7 DEF RangeOf
    <2>6. \A i \in 1..n : ranges0[i] \in (0..MaxPage) \X (0..MaxPage)
        <3> TAKE i \in 1..n
        <3>1. ranges0[i][1] \in 0..MaxPage
            BY <1>1, <2>1, <2>2, <2>3, <2>5
        <3>2. ranges0[i][2] \in 0..MaxPage
            <4>1. CASE i = n
                BY <1>1, <2>5, <4>1
            <4>2. CASE i # n
                BY <1>1, <2>1, <2>2, <2>3, <2>5, <4>2
            <4> QED BY <4>1, <4>2
        <3>3. ranges0[i] = <<ranges0[i][1], ranges0[i][2]>>
            BY <2>5
        <3>4. <<ranges0[i][1], ranges0[i][2]>> \in (0..MaxPage) \X (0..MaxPage)
            BY <3>1, <3>2
        <3> QED BY <3>3, <3>4
    <2>7. DOMAIN ranges0 = 1..n /\ ranges0 \in Seq((0..MaxPage) \X (0..MaxPage))
        <3>1. ranges0 \in [1..n -> (0..MaxPage) \X (0..MaxPage)]
            BY <2>4, <2>6
        <3> QED BY <2>3, <3>1
    <2>8. \A a, b \in 1..n : a < b => ranges0[a][2] <= ranges0[b][1]
        <3> TAKE a, b \in 1..n
        <3> HAVE a < b
        <3>1. a # n /\ a \in Nat /\ b - 1 \in Nat /\ a <= b - 1
            BY <2>3
        <3>2. a * c <= (b - 1) * c
            BY <2>2, <3>1, MultiplesMonotone
        <3> QED BY <2>5, <3>1, <3>2
    <2>9. ASSUME NEW page \in 0..(MaxPage - 1)
          PROVE  \E i \in 1..n : InRange(page, ranges0[i])
        <3> DEFINE k == page \div c
        <3>1. page \in Nat /\ page < MaxPage
            BY <1>1
        <3>2. k \in Nat /\ c * k <= page /\ page < c * k + c
            BY <2>2, <3>1, DivBounds
        <3> HIDE DEF k
        <3>3. k * c <= page /\ page < (k + 1) * c
            BY <2>2, <3>2
        <3>4. page < (n - 1) * c => k + 1 < n
            <4>1. SUFFICES ASSUME page < (n - 1) * c, n - 1 <= k PROVE FALSE
                BY <2>3, <3>2
            <4>2. (n - 1) * c <= k * c
                BY <2>2, <2>3, <3>2, <4>1, MultiplesMonotone
            <4> QED BY <2>2, <2>3, <3>1, <3>2, <3>3, <4>1, <4>2
        <3>5. CASE page < (n - 1) * c
            <4>1. k + 1 \in 1..n /\ k + 1 # n /\ (k + 1) - 1 = k
                BY <2>3, <3>2, <3>4, <3>5
            <4>2. ranges0[k + 1][1] = k * c /\ ranges0[k + 1][2] = (k + 1) * c
                BY <2>5, <4>1
            <4> QED BY <3>3, <4>1, <4>2 DEF InRange
        <3>6. CASE ~(page < (n - 1) * c)
            <4>1. n \in 1..n /\ ranges0[n][1] = (n - 1) * c /\ ranges0[n][2] = MaxPage
                BY <2>3, <2>5
            <4>2. (n - 1) * c \in Nat
                BY <2>2, <2>3
            <4> QED BY <3>1, <3>6, <4>1, <4>2 DEF InRange
        <3> QED BY <3>5, <3>6
    <2> QED BY <2>7, <2>8, <2>9 DEF Split, ranges0
<1> QED BY <1>2, <1>3

(* A page is in no two ranges.                                             *)
LEMMA SplitDisjoint ==
    ASSUME NEW rs, Split(rs), NEW i \in DOMAIN rs, NEW j \in DOMAIN rs,
           NEW page \in Int, InRange(page, rs[i]), InRange(page, rs[j])
    PROVE  i = j
<1>1. rs[i][1] \in Int /\ rs[i][2] \in Int /\ rs[j][1] \in Int /\ rs[j][2] \in Int
    BY MaxPageAssumption DEF Split
<1>2. i \in Int /\ j \in Int
    BY DEF Split
<1>3. ~(i < j)
    BY <1>1 DEF Split, InRange
<1>4. ~(j < i)
    BY <1>1 DEF Split, InRange
<1> QED BY <1>2, <1>3, <1>4

(* Every page below u32::MAX is in exactly one of the ranges that          *)
(* ctid_ranges returns, for every page count and number of partitions for  *)
(* which it returns: a scan neither misses nor repeats a page, even one    *)
(* the count did not know.  DividesByZeroExactly says when it panics       *)
(* instead.                                                                *)
THEOREM CtidRangesPartition ==
    ASSUME NEW pages \in 0..MaxPage, NEW partitions \in Nat,
           ~DividesByZero(pages, partitions)
    PROVE  EveryPageInOneRange(pages, partitions)
<1> DEFINE rs == ctid_ranges(pages, partitions)
<1>1. Split(rs)
    BY RangesAreSplit
<1> HIDE DEF rs
<1> SUFFICES ASSUME NEW page \in 0..(MaxPage - 1)
             PROVE  \E i \in DOMAIN rs :
                       /\ InRange(page, rs[i])
                       /\ \A j \in DOMAIN rs : InRange(page, rs[j]) => j = i
    BY DEF EveryPageInOneRange, rs
<1>2. PICK i \in DOMAIN rs : InRange(page, rs[i])
    BY <1>1 DEF Split
<1>3. page \in Int
    BY MaxPageAssumption
<1> QED BY <1>1, <1>2, <1>3, SplitDisjoint

---------------------------------------------------------------------------
(* Types *)

LEMMA Parameters ==
    /\ MaxPage \in Nat \ {0} /\ Workers \in Nat \ {0} /\ Partitions \subseteq Nat
    /\ PageCounts \subseteq 0..MaxPage
    /\ Tables \subseteq [Rows -> 0..MaxPage]
    /\ MaxWrites \in Nat /\ MaxPanics \in Nat
BY MaxPageAssumption, ParallelAssumption

LEMMA WorkerOfType == \A i \in Nat \ {0} : WorkerOf(i) \in Pool
<1> SUFFICES ASSUME NEW i \in Nat \ {0} PROVE (i - 1) % Workers \in 0..(Workers - 1)
    BY DEF WorkerOf, Pool
<1>1. i - 1 \in Nat /\ Workers \in Nat \ {0}
    BY Parameters
<1> QED BY <1>1

LEMMA InitTypes == Init => TypeOK
<1> SUFFICES ASSUME Init PROVE TypeOK
    OBVIOUS
<1> QED BY Parameters DEF Init, TypeOK

(* The rows a statement returns are rows of the table.                     *)
LEMMA ReplyTypes ==
    /\ \A range : Reply("rows", RowsIn(range)) \in ReplyType
    /\ Reply("pending", {}) \in ReplyType /\ Reply("error", {}) \in ReplyType
    /\ Reply("dropped", {}) \in ReplyType /\ Reply("taken", {}) \in ReplyType
<1>1. \A range : RowsIn(range) \in SUBSET Rows
    BY DEF RowsIn
<1> QED BY <1>1 DEF Reply, ReplyType

LEMMA EndTypes ==
    ASSUME TypeOK, NEW s \in Scans,
           NEW how \in {"done", "panicked", "query_failed", "worker_gone", "reply_dropped"},
           End(s, how)
    PROVE  /\ scan' \in [Scans -> {"new", "running", "done", "panicked", "query_failed",
                                   "worker_gone", "reply_dropped"}]
           /\ ranges' \in [Scans -> Seq((0..MaxPage) \X (0..MaxPage))]
           /\ replies' \in [Scans -> Seq(ReplyType)]
           /\ result' \in [Scans -> Seq(SUBSET Rows)]
           /\ places' \in [Scans -> [Rows -> SUBSET (0..MaxPage)]]
<1>1. scan' \in [Scans -> {"new", "running", "done", "panicked", "query_failed",
                           "worker_gone", "reply_dropped"}]
    BY DEF End, TypeOK
<1>2. ranges' \in [Scans -> Seq((0..MaxPage) \X (0..MaxPage))]
    BY DEF End, TypeOK
<1>3. replies' \in [Scans -> Seq(ReplyType)]
    BY DEF End, TypeOK
<1>4. result' \in [Scans -> Seq(SUBSET Rows)]
    <2>1. result' = result \/ result' = [result EXCEPT ![s] = <<>>]
        BY DEF End
    <2>2. <<>> \in Seq(SUBSET Rows)
        OBVIOUS
    <2> QED BY <2>1, <2>2 DEF TypeOK
<1>5. [r \in Rows |-> {}] \in [Rows -> SUBSET (0..MaxPage)]
    OBVIOUS
<1>6. places' \in [Scans -> [Rows -> SUBSET (0..MaxPage)]]
    BY <1>5 DEF End, TypeOK
<1> QED BY <1>1, <1>2, <1>3, <1>4, <1>6

LEMMA StartTypes == ASSUME TypeOK, NEW s \in Scans, Start(s) PROVE TypeOK'
<1>1. UNCHANGED <<place, worker, queue, writes, panics>>
    BY DEF Start
<1>2. CASE End(s, "panicked")
    BY <1>1, <1>2, EndTypes DEF TypeOK
<1>3. CASE ~End(s, "panicked")
    <2>1. PICK pages \in PageCounts, partitions \in Partitions :
              /\ ~DividesByZero(pages, partitions)
              /\ ranges' = [ranges EXCEPT ![s] = ctid_ranges(pages, partitions)]
              /\ scan' = [scan EXCEPT ![s] = "running"]
              /\ places' = [places EXCEPT ![s] = [r \in Rows |-> {place[r]}]]
              /\ UNCHANGED <<replies, result>>
        BY <1>3 DEF Start
    <2>2. ctid_ranges(pages, partitions) \in Seq((0..MaxPage) \X (0..MaxPage))
        BY <2>1, Parameters, RangesAreSplit DEF Split
    <2>3. ranges' \in [Scans -> Seq((0..MaxPage) \X (0..MaxPage))]
        BY <2>1, <2>2 DEF TypeOK
    <2>4. [r \in Rows |-> {place[r]}] \in [Rows -> SUBSET (0..MaxPage)]
        BY DEF TypeOK
    <2>5. places' \in [Scans -> [Rows -> SUBSET (0..MaxPage)]]
        BY <2>1, <2>4 DEF TypeOK
    <2> QED BY <1>1, <2>1, <2>3, <2>5 DEF TypeOK
<1> QED BY <1>2, <1>3

LEMMA CountTypes == ASSUME TypeOK, NEW s \in Scans, CountFails(s) PROVE TypeOK'
BY EndTypes DEF CountFails, TypeOK

LEMMA SendTypes == ASSUME TypeOK, NEW s \in Scans, SendJob(s) PROVE TypeOK'
<1> DEFINE i == Len(replies[s]) + 1
           w == WorkerOf(i)
           job == [scan |-> s, part |-> i, range |-> ranges[s][i]]
<1>1. replies[s] \in Seq(ReplyType) /\ ranges[s] \in Seq((0..MaxPage) \X (0..MaxPage))
    BY DEF TypeOK
<1>2. i \in Nat \ {0} /\ i <= Len(ranges[s])
    BY <1>1 DEF SendJob
<1>3. w \in Pool
    BY <1>2, WorkerOfType
<1>4. ranges[s][i] \in (0..MaxPage) \X (0..MaxPage)
    BY <1>1, <1>2
<1>5. job \in JobType
    BY <1>2, <1>4 DEF JobType
<1>6. UNCHANGED <<place, worker, writes, panics>>
    BY DEF SendJob
<1>7. CASE /\ worker[w] # "gone"
           /\ queue' = [queue EXCEPT ![w] = Append(@, job)]
           /\ replies' = [replies EXCEPT ![s] = Append(@, Reply("pending", {}))]
           /\ UNCHANGED <<scan, ranges, result, places>>
    <2> HIDE DEF job, w, i
    <2>1. queue[w] \in Seq(JobType)
        BY <1>3 DEF TypeOK
    <2>2. Append(queue[w], job) \in Seq(JobType)
        BY <1>5, <2>1
    <2>3. queue' \in [Pool -> Seq(JobType)]
        BY <1>7, <2>2 DEF TypeOK
    <2>4. Append(replies[s], Reply("pending", {})) \in Seq(ReplyType)
        BY <1>1, ReplyTypes
    <2>5. replies' \in [Scans -> Seq(ReplyType)]
        BY <1>7, <2>4 DEF TypeOK
    <2>6. \A x \in Pool : worker'[x] = "gone" => queue'[x] = <<>>
        BY <1>6, <1>7 DEF TypeOK
    <2> QED BY <1>6, <1>7, <2>3, <2>5, <2>6 DEF TypeOK
<1>8. CASE End(s, "worker_gone") /\ UNCHANGED queue
    BY <1>6, <1>8, EndTypes DEF TypeOK
<1> QED BY <1>7, <1>8 DEF SendJob

LEMMA AwaitTypes == ASSUME TypeOK, NEW s \in Scans, AwaitReply(s) PROVE TypeOK'
<1>1. replies[s] \in Seq(ReplyType) /\ result[s] \in Seq(SUBSET Rows)
    BY DEF TypeOK
<1>2. UNCHANGED <<place, worker, queue, writes, panics>>
    BY DEF AwaitReply
<1>3. PICK i \in Receivable(s) :
          \/ /\ replies[s][i].state = "rows"
             /\ result' = [result EXCEPT ![s] = Append(@, replies[s][i].rows)]
             /\ replies' = [replies EXCEPT ![s][i] = Reply("taken", {})]
             /\ UNCHANGED <<scan, ranges, places>>
          \/ replies[s][i].state = "error" /\ End(s, "query_failed")
          \/ replies[s][i].state = "dropped" /\ End(s, "reply_dropped")
    BY DEF AwaitReply
<1>4. CASE \/ replies[s][i].state = "error" /\ End(s, "query_failed")
           \/ replies[s][i].state = "dropped" /\ End(s, "reply_dropped")
    BY <1>2, <1>4, EndTypes DEF TypeOK
<1>5. CASE /\ replies[s][i].state = "rows"
           /\ result' = [result EXCEPT ![s] = Append(@, replies[s][i].rows)]
           /\ replies' = [replies EXCEPT ![s][i] = Reply("taken", {})]
           /\ UNCHANGED <<scan, ranges, places>>
    <2>1. i \in DOMAIN replies[s]
        BY DEF Receivable
    <2>2. replies[s][i] \in ReplyType
        BY <1>1, <2>1
    <2>3. replies[s][i].rows \in SUBSET Rows
        BY <2>2 DEF ReplyType
    <2>4. Append(result[s], replies[s][i].rows) \in Seq(SUBSET Rows)
        BY <1>1, <2>3
    <2>5. result' \in [Scans -> Seq(SUBSET Rows)]
        BY <1>5, <2>4 DEF TypeOK
    <2>6. [replies[s] EXCEPT ![i] = Reply("taken", {})] \in Seq(ReplyType)
        <3>1. replies[s] \in [1..Len(replies[s]) -> ReplyType] /\ Len(replies[s]) \in Nat
            BY <1>1
        <3>2. [replies[s] EXCEPT ![i] = Reply("taken", {})] \in [1..Len(replies[s]) -> ReplyType]
            BY <3>1, ReplyTypes
        <3> QED BY <3>1, <3>2
    <2>7. replies' \in [Scans -> Seq(ReplyType)]
        BY <1>5, <2>6 DEF TypeOK
    <2> QED BY <1>2, <1>5, <2>5, <2>7 DEF TypeOK
<1> QED BY <1>3, <1>4, <1>5

LEMMA FinishTypes == ASSUME TypeOK, NEW s \in Scans, Finish(s) PROVE TypeOK'
BY EndTypes DEF Finish, TypeOK

LEMMA RunTypes == ASSUME TypeOK, NEW w \in Pool, RunJob(w) PROVE TypeOK'
<1> DEFINE job == Head(queue[w])
<1>1. queue[w] \in Seq(JobType) /\ queue[w] # <<>>
    BY DEF TypeOK, RunJob
<1>2. job \in JobType /\ Tail(queue[w]) \in Seq(JobType)
    BY <1>1
<1>3. queue' \in [Pool -> Seq(JobType)]
    BY <1>2 DEF RunJob, TypeOK
<1>4. PICK reply \in {Reply("rows", RowsIn(job.range)), Reply("error", {})} : Answer(job, reply)
    BY DEF RunJob
<1>5. reply \in ReplyType
    BY ReplyTypes
<1>6. job.scan \in Scans
    BY <1>2 DEF JobType
<1> HIDE DEF job
<1>7. replies[job.scan] \in Seq(ReplyType)
    BY <1>6 DEF TypeOK
<1>8. Awaited(job) => [replies[job.scan] EXCEPT ![job.part] = reply] \in Seq(ReplyType)
    BY <1>5, <1>7 DEF Awaited
<1>9. replies' \in [Scans -> Seq(ReplyType)]
    BY <1>4, <1>6, <1>8 DEF TypeOK, Answer
<1>10. \A x \in Pool : worker'[x] = "gone" => queue'[x] = <<>>
    BY <1>1 DEF RunJob, TypeOK
<1> QED BY <1>3, <1>9, <1>10 DEF RunJob, TypeOK

LEMMA PanicTypes == ASSUME TypeOK, NEW w \in Pool, WorkerPanics(w) PROVE TypeOK'
<1>1. replies' = [s \in Scans |-> [i \in DOMAIN replies[s] |->
                     IF <<s, i>> \in Dropped(w) THEN Reply("dropped", {}) ELSE replies[s][i]]]
    BY DEF WorkerPanics, AfterPanic
<1>2. ASSUME NEW s \in Scans PROVE replies'[s] \in Seq(ReplyType)
    <2>1. replies[s] \in Seq(ReplyType)
        BY DEF TypeOK
    <2>2. replies'[s] = [i \in 1..Len(replies[s]) |->
              IF <<s, i>> \in Dropped(w) THEN Reply("dropped", {}) ELSE replies[s][i]]
        BY <1>1, <2>1
    <2>3. replies'[s] \in [1..Len(replies[s]) -> ReplyType]
        BY <2>1, <2>2, ReplyTypes
    <2> QED BY <2>1, <2>3
<1>3. replies' \in [Scans -> Seq(ReplyType)]
    BY <1>1, <1>2
<1>4. queue' \in [Pool -> Seq(JobType)] /\ worker' \in [Pool -> {"serving", "gone"}]
    BY DEF WorkerPanics, TypeOK
<1>5. \A x \in Pool : worker'[x] = "gone" => queue'[x] = <<>>
    BY DEF WorkerPanics, TypeOK
<1>6. panics' \in 0..MaxPanics
    BY Parameters DEF WorkerPanics, TypeOK
<1> QED BY <1>3, <1>4, <1>5, <1>6 DEF WorkerPanics, TypeOK

LEMMA WriteTypes == ASSUME TypeOK, NEW r \in Rows, Write(r) PROVE TypeOK'
<1>1. PICK p \in (0..MaxPage) \ {place[r]} : place' = [place EXCEPT ![r] = p]
    BY DEF Write
<1>2. place' \in [Rows -> 0..MaxPage] /\ place'[r] = p
    BY <1>1 DEF TypeOK
<1>3. writes' \in 0..MaxWrites
    BY Parameters DEF Write, TypeOK
<1>4. places' = [s \in Scans |-> IF scan[s] = "running"
                                 THEN [places[s] EXCEPT ![r] = @ \union {place'[r]}]
                                 ELSE places[s]]
    BY DEF Write
<1>5. ASSUME NEW s \in Scans PROVE places'[s] \in [Rows -> SUBSET (0..MaxPage)]
    <2>1. places[s] \in [Rows -> SUBSET (0..MaxPage)]
        BY DEF TypeOK
    <2>2. places[s][r] \union {p} \in SUBSET (0..MaxPage)
        BY <2>1
    <2>3. [places[s] EXCEPT ![r] = places[s][r] \union {p}] \in [Rows -> SUBSET (0..MaxPage)]
        BY <2>1, <2>2
    <2> QED BY <1>2, <1>4, <2>1, <2>3
<1>6. places' \in [Scans -> [Rows -> SUBSET (0..MaxPage)]]
    BY <1>4, <1>5
<1> QED BY <1>2, <1>3, <1>6 DEF Write, TypeOK

LEMMA StepTypes == TypeOK /\ [Next]_vars => TypeOK'
<1> SUFFICES ASSUME TypeOK, [Next]_vars PROVE TypeOK'
    OBVIOUS
<1>1. CASE UNCHANGED vars
    BY <1>1 DEF vars, TypeOK
<1>2. CASE \E s \in Scans : CallerStep(s)
    BY <1>2, StartTypes, CountTypes, SendTypes, AwaitTypes, FinishTypes DEF CallerStep
<1>3. CASE \E w \in Pool : RunJob(w) \/ WorkerPanics(w)
    BY <1>3, RunTypes, PanicTypes
<1>4. CASE \E r \in Rows : Write(r)
    BY <1>4, WriteTypes
<1> QED BY <1>1, <1>2, <1>3, <1>4 DEF Next

---------------------------------------------------------------------------
(* Preservation *)

(* More places a row has been in never make a read wrong.                  *)
LEMMA SeenMore ==
    ASSUME NEW rows, NEW range, NEW been, NEW more, Seen(rows, been, range),
           \A r \in Rows : been[r] \subseteq more[r] /\ been[r] # {}
    PROVE  Seen(rows, more, range)
<1>1. rows \subseteq Rows /\ \A r \in rows : \E p \in been[r] : InRange(p, range)
    BY DEF Seen
<1>2. \A r \in rows : \E p \in more[r] : InRange(p, range)
    BY <1>1
<1>3. ASSUME NEW r \in Rows, NEW p \in more[r], more[r] = {p}, InRange(p, range)
      PROVE  r \in rows
    <2>1. been[r] = {p} /\ p \in been[r]
        BY <1>3
    <2> QED BY <1>3, <2>1 DEF Seen
<1> QED BY <1>1, <1>2, <1>3 DEF Seen

(* What a statement reads now.                                             *)
LEMMA SeenNow ==
    ASSUME NEW been, NEW range, \A r \in Rows : place[r] \in been[r]
    PROVE  Seen(RowsIn(range), been, range)
BY DEF Seen, RowsIn

(* Scans that a step does not touch.                                       *)
LEMMA ScanKept ==
    ASSUME NEW s \in Scans, ScanInv(s), place' = place, panics' >= panics,
           panics \in Nat, panics' \in Nat,
           scan'[s] = scan[s], ranges'[s] = ranges[s], replies'[s] = replies[s],
           result'[s] = result[s], places'[s] = places[s]
    PROVE  ScanInv(s)'
<1>1. NewInv(s) => NewInv(s)'
    BY DEF NewInv
<1>2. RunningInv(s) => RunningInv(s)'
    BY DEF RunningInv
<1>3. EndedInv(s) => EndedInv(s)'
    BY DEF EndedInv
<1> QED BY <1>1, <1>2, <1>3 DEF ScanInv

(* Only a running scan has replies to await.                               *)
LEMMA AwaitedRuns ==
    ASSUME NEW s \in Scans, ScanInv(s), scan[s] # "running"
    PROVE  replies[s] = <<>>
BY DEF ScanInv, NewInv, EndedInv

LEMMA JobTyped ==
    ASSUME TypeOK, NEW w \in Pool, NEW k \in DOMAIN queue[w]
    PROVE  /\ queue[w][k] \in JobType /\ k \in Nat \ {0}
           /\ queue[w][k].scan \in Scans /\ queue[w][k].part \in Nat \ {0}
<1>1. queue[w] \in Seq(JobType)
    BY DEF TypeOK
<1>2. queue[w][k] \in JobType /\ k \in Nat \ {0}
    BY <1>1
<1> QED BY <1>2 DEF JobType

LEMMA Counters == TypeOK => panics \in Nat
BY Parameters DEF TypeOK

LEMMA InitInv == Init => IInv
<1> SUFFICES ASSUME Init PROVE IInv
    OBVIOUS
<1>1. TypeOK
    BY InitTypes
<1>2. \A s \in Scans : ScanInv(s)
    BY DEF Init, ScanInv, NewInv
<1>3. QueueInv /\ PoolInv
    BY DEF Init, QueueInv, PoolInv
<1> QED BY <1>1, <1>2, <1>3 DEF IInv

(* A scan that returns, with its rows or without.                          *)
LEMMA EndInv ==
    ASSUME IInv, NEW s \in Scans,
           NEW how \in {"done", "panicked", "query_failed", "worker_gone", "reply_dropped"},
           End(s, how),
           UNCHANGED <<place, worker, queue, panics>>, TypeOK',
           how = "done" => scan[s] = "running" /\ Len(result[s]) = Len(ranges[s]),
           how \in {"worker_gone", "reply_dropped"} => panics > 0
    PROVE  IInv'
<1>1. TypeOK /\ QueueInv /\ PoolInv /\ \A t \in Scans : ScanInv(t)
    BY DEF IInv
<1>2. /\ scan' = [scan EXCEPT ![s] = how]
      /\ replies' = [replies EXCEPT ![s] = <<>>]
      /\ ranges' = [ranges EXCEPT ![s] = <<>>]
    BY DEF End
<1>3. scan'[s] = how /\ replies'[s] = <<>>
    BY <1>1, <1>2 DEF TypeOK
<1>5. EndedInv(s)'
    <2>1. CASE how = "done"
        <3>1. Received(ranges[s], places[s], result[s])
            BY <1>1, <2>1 DEF ScanInv, RunningInv
        <3>2. result' = result /\ places' = places
            BY <2>1 DEF End
        <3> QED BY <1>3, <2>1, <3>1, <3>2 DEF EndedInv
    <2>2. CASE how # "done"
        <3>1. result'[s] = <<>>
            BY <1>1, <2>2 DEF End, TypeOK
        <3> QED BY <1>3, <2>2, <3>1 DEF EndedInv
    <2> QED BY <2>1, <2>2
<1>6. ScanInv(s)'
    BY <1>3, <1>5 DEF ScanInv
<1>7. ASSUME NEW t \in Scans, t # s PROVE ScanInv(t)'
    <2>1. ScanInv(t) /\ panics' = panics /\ panics \in Nat
        BY <1>1, Counters
    <2>2. scan'[t] = scan[t] /\ ranges'[t] = ranges[t] /\ replies'[t] = replies[t]
        BY <1>1, <1>2, <1>7 DEF TypeOK
    <2>3. result'[t] = result[t] /\ places'[t] = places[t]
        BY <1>1, <1>7 DEF End, TypeOK
    <2> QED BY <2>1, <2>2, <2>3, ScanKept
<1>8. ASSUME NEW w \in Pool, NEW k \in DOMAIN queue[w] PROVE Owed(queue[w][k])'
    <2>1. Owed(queue[w][k]) /\ queue[w][k].scan \in Scans
        BY <1>1, <1>8, JobTyped DEF QueueInv
    <2>2. CASE queue[w][k].scan = s
        BY <1>3, <2>2 DEF Owed
    <2>3. CASE queue[w][k].scan # s
        BY <1>1, <1>2, <2>1, <2>3 DEF Owed, TypeOK
    <2> QED BY <2>2, <2>3
<1>9. QueueInv' /\ PoolInv'
    BY <1>1, <1>8 DEF QueueInv, PoolInv
<1> QED BY <1>6, <1>7, <1>9 DEF IInv

LEMMA StartInv == ASSUME IInv, NEW s \in Scans, Start(s) PROVE IInv'
<1>1. TypeOK /\ TypeOK' /\ QueueInv /\ PoolInv /\ \A t \in Scans : ScanInv(t)
    BY StartTypes DEF IInv
<1>2. scan[s] = "new" /\ UNCHANGED <<place, worker, queue, writes, panics>>
    BY DEF Start
<1>3. CASE End(s, "panicked")
    BY <1>1, <1>2, <1>3, EndInv
<1>4. CASE ~End(s, "panicked")
    <2>1. PICK pages \in PageCounts, partitions \in Partitions :
              /\ ~DividesByZero(pages, partitions)
              /\ ranges' = [ranges EXCEPT ![s] = ctid_ranges(pages, partitions)]
              /\ scan' = [scan EXCEPT ![s] = "running"]
              /\ places' = [places EXCEPT ![s] = [r \in Rows |-> {place[r]}]]
              /\ UNCHANGED <<replies, result>>
        BY <1>4 DEF Start
    <2>2. Split(ctid_ranges(pages, partitions))
        BY <2>1, Parameters, RangesAreSplit
    <2>3. NewInv(s)
        BY <1>1, <1>2 DEF ScanInv
    <2>4. /\ scan'[s] = "running" /\ replies'[s] = <<>> /\ result'[s] = <<>>
          /\ places'[s] = [r \in Rows |-> {place[r]}]
          /\ ranges'[s] = ctid_ranges(pages, partitions)
        BY <1>1, <2>1, <2>3 DEF TypeOK, NewInv
    <2>5. Split(ranges'[s]) /\ Len(ranges'[s]) \in Nat
        BY <2>2, <2>4 DEF Split
    <2>6. Received(ranges[s], places[s], result[s])'
        BY <2>4, <2>5 DEF Received
    <2>7. RunningInv(s)'
        BY <1>2, <2>4, <2>5, <2>6 DEF RunningInv
    <2>8. ScanInv(s)'
        BY <2>4, <2>7 DEF ScanInv
    <2>9. ASSUME NEW t \in Scans, t # s PROVE ScanInv(t)'
        <3>1. ScanInv(t) /\ panics' = panics /\ panics \in Nat
            BY <1>1, <1>2, Counters
        <3>2. /\ scan'[t] = scan[t] /\ ranges'[t] = ranges[t] /\ replies'[t] = replies[t]
              /\ result'[t] = result[t] /\ places'[t] = places[t]
            BY <1>1, <2>1, <2>9 DEF TypeOK
        <3> QED BY <1>2, <3>1, <3>2, ScanKept
    <2>10. ASSUME NEW w \in Pool, NEW k \in DOMAIN queue[w] PROVE Owed(queue[w][k])'
        <3>1. Owed(queue[w][k]) /\ queue[w][k].scan \in Scans
            BY <1>1, <2>10, JobTyped DEF QueueInv
        <3>2. queue[w][k].scan # s
            BY <1>2, <3>1 DEF Owed
        <3> QED BY <1>1, <1>2, <2>1, <3>1, <3>2 DEF Owed, TypeOK
    <2>11. QueueInv' /\ PoolInv'
        BY <1>1, <1>2, <2>10 DEF QueueInv, PoolInv
    <2> QED BY <1>1, <2>8, <2>9, <2>11 DEF IInv
<1> QED BY <1>3, <1>4

LEMMA CountInv == ASSUME IInv, NEW s \in Scans, CountFails(s) PROVE IInv'
<1>1. TypeOK' /\ UNCHANGED <<place, worker, queue, panics>> /\ End(s, "query_failed")
    BY CountTypes DEF IInv, CountFails
<1> QED BY <1>1, EndInv

LEMMA SendInv == ASSUME IInv, NEW s \in Scans, SendJob(s) PROVE IInv'
<1> DEFINE i == Len(replies[s]) + 1
           w == WorkerOf(i)
           job == [scan |-> s, part |-> i, range |-> ranges[s][i]]
<1>1. TypeOK /\ TypeOK' /\ QueueInv /\ PoolInv /\ \A t \in Scans : ScanInv(t)
    BY SendTypes DEF IInv
<1>2. /\ scan[s] = "running" /\ i <= Len(ranges[s])
      /\ UNCHANGED <<place, worker, writes, panics>>
    BY DEF SendJob
<1>3. RunningInv(s)
    BY <1>1, <1>2 DEF ScanInv
<1>4. replies[s] \in Seq(ReplyType) /\ ranges[s] \in Seq((0..MaxPage) \X (0..MaxPage))
      /\ result[s] \in Seq(SUBSET Rows)
    BY <1>1 DEF TypeOK
<1>5. i \in Nat \ {0} /\ w \in Pool
    <2>1. i \in Nat \ {0}
        BY <1>4
    <2> HIDE DEF i
    <2> QED BY <2>1, WorkerOfType
<1>6. job.scan = s /\ job.part = i /\ job.range = ranges[s][i]
    OBVIOUS
<1>7. CASE End(s, "worker_gone") /\ UNCHANGED queue /\ worker[w] = "gone"
    <2>1. panics > 0
        BY <1>1, <1>5, <1>7 DEF PoolInv
    <2> QED BY <1>1, <1>2, <1>7, <2>1, EndInv
<1>8. CASE /\ worker[w] # "gone"
           /\ queue' = [queue EXCEPT ![w] = Append(@, job)]
           /\ replies' = [replies EXCEPT ![s] = Append(@, Reply("pending", {}))]
           /\ UNCHANGED <<scan, ranges, result, places>>
    <2> HIDE DEF job, w
    <2>1. replies'[s] = Append(replies[s], Reply("pending", {}))
        BY <1>1, <1>8 DEF TypeOK
    <2>2. Len(replies'[s]) = i /\ DOMAIN replies'[s] = 1..i
        BY <1>4, <2>1
    <2>3. \A k \in DOMAIN replies[s] : k \in 1..i /\ replies'[s][k] = replies[s][k]
        BY <1>4, <2>1
    <2>4. replies'[s][i] = Reply("pending", {})
        BY <1>4, <2>1
    <2>5. \A k \in DOMAIN replies'[s] : k \in DOMAIN replies[s] \/ k = i
        BY <1>4, <2>2
    <2>6. i \in DOMAIN replies'[s]
        BY <1>5, <2>2
    <2> HIDE DEF i
    <2>7. RunningInv(s)'
        <3>1. Received(ranges[s], places[s], result[s])'
            BY <1>3, <1>8 DEF RunningInv
        <3>2. Len(result'[s]) <= Len(replies'[s]) /\ Len(replies'[s]) <= Len(ranges'[s])
            BY <1>2, <1>3, <1>4, <1>8, <2>2 DEF RunningInv, i
        <3>3. \A r \in Rows : place'[r] \in places'[s][r]
            BY <1>2, <1>3, <1>8 DEF RunningInv
        <3>4. ASSUME NEW k \in DOMAIN replies[s]
              PROVE /\ replies'[s][k].state = "taken" <=> k <= Len(result'[s])
                    /\ replies'[s][k].state = "rows" =>
                          Seen(replies'[s][k].rows, places'[s], ranges'[s][k])
                    /\ replies'[s][k].state = "dropped" => panics' > 0
            BY <1>2, <1>3, <1>8, <2>3 DEF RunningInv
        <3>5. replies'[s][i].state = "pending" /\ ~(i <= Len(result'[s]))
            BY <1>3, <1>4, <1>8, <2>4 DEF RunningInv, Reply, i
        <3>6. ASSUME NEW k \in DOMAIN replies'[s]
              PROVE /\ replies'[s][k].state = "taken" <=> k <= Len(result'[s])
                    /\ replies'[s][k].state = "rows" =>
                          Seen(replies'[s][k].rows, places'[s], ranges'[s][k])
                    /\ replies'[s][k].state = "dropped" => panics' > 0
            <4>1. CASE k \in DOMAIN replies[s]
                BY <3>4, <4>1
            <4>2. CASE k = i
                BY <3>5, <4>2
            <4> QED BY <2>5, <4>1, <4>2
        <3> QED BY <3>1, <3>2, <3>3, <3>6 DEF RunningInv
    <2>8. ScanInv(s)'
        BY <1>2, <1>8, <2>7 DEF ScanInv
    <2>9. ASSUME NEW t \in Scans, t # s PROVE ScanInv(t)'
        <3>1. ScanInv(t) /\ panics' = panics /\ panics \in Nat
            BY <1>1, <1>2, Counters
        <3>2. /\ scan'[t] = scan[t] /\ ranges'[t] = ranges[t] /\ replies'[t] = replies[t]
              /\ result'[t] = result[t] /\ places'[t] = places[t]
            BY <1>1, <1>8, <2>9 DEF TypeOK
        <3> QED BY <1>2, <3>1, <3>2, ScanKept
    <2>10. ASSUME NEW x \in Pool, NEW k \in DOMAIN queue'[x]
           PROVE  \/ k \in DOMAIN queue[x] /\ queue'[x][k] = queue[x][k]
                  \/ x = w /\ k = Len(queue[w]) + 1 /\ queue'[x][k] = job
        <3>1. CASE x # w
            <4>1. queue'[x] = queue[x]
                BY <1>1, <1>8, <3>1 DEF TypeOK
            <4> QED BY <2>10, <4>1
        <3>2. CASE x = w
            <4>1. queue[w] \in Seq(JobType) /\ queue'[w] = Append(queue[w], job)
                BY <1>1, <1>5, <1>8 DEF TypeOK
            <4>2. k \in 1..(Len(queue[w]) + 1)
                BY <2>10, <3>2, <4>1
            <4>3. CASE k = Len(queue[w]) + 1
                BY <3>2, <4>1, <4>3
            <4>4. CASE k # Len(queue[w]) + 1
                <5>1. k \in 1..Len(queue[w])
                    BY <4>1, <4>2, <4>4
                <5>2. Append(queue[w], job)[k] = queue[w][k]
                    BY <4>1, <5>1
                <5> QED BY <3>2, <4>1, <5>1, <5>2
            <4> QED BY <4>3, <4>4
        <3> QED BY <3>1, <3>2
    <2>11. job.scan = s /\ job.part = i /\ job.range = ranges[s][i]
        BY <1>6
    <2>12. ASSUME NEW x \in Pool, NEW k \in DOMAIN queue[x], NEW was, was = queue[x][k]
           PROVE  Owed(was)' /\ ~SamePart(was, job) /\ ~SamePart(job, was)
        <3>1. Owed(was) /\ was.scan \in Scans /\ was.part \in Nat
            BY <1>1, <2>12, JobTyped DEF QueueInv
        <3>2. CASE was.scan = s
            <4>1. /\ was.part \in DOMAIN replies[s]
                  /\ replies[s][was.part].state = "pending"
                  /\ was.range = ranges[s][was.part]
                BY <1>2, <3>1, <3>2 DEF Owed
            <4>2. was.part # i
                BY <1>4, <4>1 DEF i
            <4>3. Owed(was)'
                BY <1>2, <1>8, <2>2, <2>3, <3>2, <4>1 DEF Owed
            <4> QED BY <2>11, <4>2, <4>3 DEF SamePart
        <3>3. CASE was.scan # s
            <4>1. replies'[was.scan] = replies[was.scan]
                BY <1>1, <1>8, <3>1, <3>3 DEF TypeOK
            <4>2. Owed(was)'
                BY <1>8, <3>1, <4>1 DEF Owed
            <4> QED BY <2>11, <3>3, <4>2 DEF SamePart
        <3> QED BY <3>2, <3>3
    <2>13. ASSUME NEW sent, sent = job PROVE Owed(sent)'
        BY <2>13, <1>2, <1>8, <2>4, <2>6, <2>11 DEF Owed, Reply
    <2>14. ASSUME NEW x \in Pool, NEW k \in DOMAIN queue'[x] PROVE Owed(queue[x][k])'
        <3>1. PICK now : now = queue'[x][k]
            OBVIOUS
        <3>2. CASE k \in DOMAIN queue[x] /\ queue'[x][k] = queue[x][k]
            <4>1. Owed(now)'
                BY <2>12, <3>1, <3>2
            <4> QED BY <3>1, <4>1 DEF Owed
        <3>3. CASE queue'[x][k] = job
            <4>1. Owed(now)'
                BY <2>13, <3>1, <3>3
            <4> QED BY <3>1, <4>1 DEF Owed
        <3> QED BY <2>10, <2>14, <3>2, <3>3
    <2>15. ASSUME NEW x \in Pool, NEW y \in Pool, NEW k \in DOMAIN queue'[x],
                  NEW l \in DOMAIN queue'[y], SamePart(queue'[x][k], queue'[y][l])
           PROVE  x = y /\ k = l
        <3>1. CASE /\ k \in DOMAIN queue[x] /\ queue'[x][k] = queue[x][k]
                   /\ l \in DOMAIN queue[y] /\ queue'[y][l] = queue[y][l]
            BY <1>1, <2>15, <3>1 DEF QueueInv
        <3>2. CASE /\ k \in DOMAIN queue[x] /\ queue'[x][k] = queue[x][k]
                   /\ queue'[y][l] = job
            BY <2>12, <2>15, <3>2
        <3>3. CASE /\ l \in DOMAIN queue[y] /\ queue'[y][l] = queue[y][l]
                   /\ queue'[x][k] = job
            BY <2>12, <2>15, <3>3
        <3>4. CASE x = w /\ k = Len(queue[w]) + 1 /\ y = w /\ l = Len(queue[w]) + 1
            BY <3>4
        <3> QED BY <2>10, <3>1, <3>2, <3>3, <3>4
    <2>16. QueueInv'
        BY <2>14, <2>15 DEF QueueInv
    <2>17. PoolInv'
        BY <1>1, <1>2 DEF PoolInv
    <2> QED BY <1>1, <2>8, <2>9, <2>16, <2>17 DEF IInv
<1> QED BY <1>7, <1>8 DEF SendJob

LEMMA AwaitInv == ASSUME IInv, NEW s \in Scans, AwaitReply(s) PROVE IInv'
<1>1. TypeOK /\ TypeOK' /\ QueueInv /\ PoolInv /\ \A t \in Scans : ScanInv(t)
    BY AwaitTypes DEF IInv
<1>2. scan[s] = "running" /\ UNCHANGED <<place, worker, queue, writes, panics>>
    BY DEF AwaitReply, Awaiting
<1>3. RunningInv(s)
    BY <1>1, <1>2 DEF ScanInv
<1>4. replies[s] \in Seq(ReplyType) /\ ranges[s] \in Seq((0..MaxPage) \X (0..MaxPage))
      /\ result[s] \in Seq(SUBSET Rows)
    BY <1>1 DEF TypeOK
<1>5. PICK i \in Receivable(s) :
          \/ /\ replies[s][i].state = "rows"
             /\ result' = [result EXCEPT ![s] = Append(@, replies[s][i].rows)]
             /\ replies' = [replies EXCEPT ![s][i] = Reply("taken", {})]
             /\ UNCHANGED <<scan, ranges, places>>
          \/ replies[s][i].state = "error" /\ End(s, "query_failed")
          \/ replies[s][i].state = "dropped" /\ End(s, "reply_dropped")
    BY DEF AwaitReply
<1>6. i \in DOMAIN replies[s]
    BY DEF Receivable
<1>7. CASE replies[s][i].state = "error" /\ End(s, "query_failed")
    BY <1>1, <1>2, <1>7, EndInv
<1>8. CASE replies[s][i].state = "dropped" /\ End(s, "reply_dropped")
    <2>1. panics > 0
        BY <1>3, <1>6, <1>8 DEF RunningInv
    <2> QED BY <1>1, <1>2, <1>8, <2>1, EndInv
<1>9. CASE /\ replies[s][i].state = "rows"
           /\ result' = [result EXCEPT ![s] = Append(@, replies[s][i].rows)]
           /\ replies' = [replies EXCEPT ![s][i] = Reply("taken", {})]
           /\ UNCHANGED <<scan, ranges, places>>
    <2> DEFINE n == Len(result[s])
    <2>1. n \in Nat /\ i \in Nat \ {0} /\ i <= Len(replies[s])
        BY <1>4, <1>6
    <2>2. i = n + 1
        <3>1. ~(i <= n)
            BY <1>3, <1>6, <1>9 DEF RunningInv
        <3>2. CASE i = 1
            BY <2>1, <3>1, <3>2
        <3>3. CASE i # 1
            <4>1. i - 1 \in 1..(i - 1) /\ i - 1 \in DOMAIN replies[s]
                <5>1. Len(replies[s]) \in Nat /\ DOMAIN replies[s] = 1..Len(replies[s])
                    BY <1>4
                <5>2. i - 1 \in 1..(i - 1) /\ i - 1 \in 1..Len(replies[s])
                    BY <2>1, <3>3, <5>1
                <5> QED BY <5>1, <5>2
            <4>2. replies[s][i - 1].state = "taken"
                BY <4>1 DEF Receivable
            <4>3. i - 1 <= n
                BY <1>3, <4>1, <4>2 DEF RunningInv
            <4> QED BY <2>1, <3>1, <4>3
        <3> QED BY <3>2, <3>3
    <2>3. result'[s] = Append(result[s], replies[s][i].rows)
        BY <1>1, <1>9 DEF TypeOK
    <2>4. /\ Len(result'[s]) = i /\ DOMAIN result'[s] = 1..i
          /\ \A k \in DOMAIN result'[s] : k # i => k \in DOMAIN result[s]
                                                   /\ result'[s][k] = result[s][k]
          /\ result'[s][i] = replies[s][i].rows
        BY <1>4, <2>2, <2>3
    <2>5. /\ DOMAIN replies'[s] = DOMAIN replies[s] /\ Len(replies'[s]) = Len(replies[s])
          /\ replies'[s][i] = Reply("taken", {})
          /\ \A k \in DOMAIN replies[s] : k # i => replies'[s][k] = replies[s][k]
        BY <1>1, <1>4, <1>6, <1>9 DEF TypeOK
    <2>6. Seen(replies[s][i].rows, places[s], ranges[s][i])
        BY <1>3, <1>6, <1>9 DEF RunningInv
    <2>7. Received(ranges[s], places[s], result'[s])
        <3>1. Split(ranges[s])
            BY <1>3 DEF RunningInv, Received
        <3>2. Len(result'[s]) <= Len(ranges[s])
            BY <1>3, <1>4, <2>1, <2>4 DEF RunningInv
        <3>3. \A k \in DOMAIN result'[s] : Seen(result'[s][k], places[s], ranges[s][k])
            BY <1>3, <2>4, <2>6 DEF RunningInv, Received
        <3> QED BY <3>1, <3>2, <3>3 DEF Received
    <2>8. RunningInv(s)'
        <3>1. Received(ranges'[s], places'[s], result'[s])
            BY <1>9, <2>7
        <3>2. Len(result'[s]) <= Len(replies'[s]) /\ Len(replies'[s]) <= Len(ranges'[s])
            BY <1>3, <1>9, <2>1, <2>4, <2>5 DEF RunningInv
        <3>3. \A r \in Rows : place'[r] \in places'[s][r]
            BY <1>2, <1>3, <1>9 DEF RunningInv
        <3>4. ASSUME NEW k \in DOMAIN replies'[s]
              PROVE  /\ replies'[s][k].state = "taken" <=> k <= Len(result'[s])
                     /\ replies'[s][k].state = "rows" =>
                           Seen(replies'[s][k].rows, places'[s], ranges'[s][k])
                     /\ replies'[s][k].state = "dropped" => panics' > 0
            <4>1. CASE k = i
                <5>1. replies'[s][k].state = "taken"
                    BY <2>5, <4>1 DEF Reply
                <5>2. k <= Len(result'[s])
                    BY <2>1, <2>4, <4>1
                <5> QED BY <5>1, <5>2
            <4>2. CASE k # i
                <5>1. k \in DOMAIN replies[s] /\ replies'[s][k] = replies[s][k]
                    BY <2>5, <3>4, <4>2
                <5>2. k \in Nat
                    BY <1>4, <5>1
                <5>3. k <= Len(result'[s]) <=> k <= n
                    BY <2>1, <2>2, <2>4, <4>2, <5>2
                <5> QED BY <1>2, <1>3, <1>9, <5>1, <5>3 DEF RunningInv
            <4> QED BY <4>1, <4>2
        <3> QED BY <3>1, <3>2, <3>3, <3>4 DEF RunningInv
    <2>9. ScanInv(s)'
        BY <1>2, <1>9, <2>8 DEF ScanInv
    <2>10. ASSUME NEW t \in Scans, t # s PROVE ScanInv(t)'
        <3>1. ScanInv(t) /\ panics' = panics /\ panics \in Nat
            BY <1>1, <1>2, Counters
        <3>2. /\ scan'[t] = scan[t] /\ ranges'[t] = ranges[t] /\ replies'[t] = replies[t]
              /\ result'[t] = result[t] /\ places'[t] = places[t]
            BY <1>1, <1>9, <2>10 DEF TypeOK
        <3> QED BY <1>2, <3>1, <3>2, ScanKept
    <2>11. ASSUME NEW x \in Pool, NEW k \in DOMAIN queue[x], NEW was, was = queue[x][k]
           PROVE  Owed(was)'
        <3>1. Owed(was) /\ was.scan \in Scans
            BY <1>1, <2>11, JobTyped DEF QueueInv
        <3>2. CASE was.scan = s
            <4>1. was.part \in DOMAIN replies[s] /\ replies[s][was.part].state = "pending"
                BY <1>2, <3>1, <3>2 DEF Owed
            <4>2. was.part # i
                BY <1>9, <4>1
            <4> QED BY <1>2, <1>9, <2>5, <3>1, <3>2, <4>1, <4>2 DEF Owed
        <3>3. CASE was.scan # s
            <4>1. replies'[was.scan] = replies[was.scan]
                BY <1>1, <1>9, <3>1, <3>3 DEF TypeOK
            <4> QED BY <1>9, <3>1, <4>1 DEF Owed
        <3> QED BY <3>2, <3>3
    <2>12. QueueInv'
        <3>1. ASSUME NEW x \in Pool, NEW k \in DOMAIN queue[x] PROVE Owed(queue[x][k])'
            <4>1. PICK was : was = queue[x][k]
                OBVIOUS
            <4>2. Owed(was)'
                BY <2>11, <4>1
            <4> QED BY <1>2, <4>1, <4>2 DEF Owed
        <3> QED BY <1>1, <1>2, <3>1 DEF QueueInv
    <2> QED BY <1>1, <1>2, <2>9, <2>10, <2>12 DEF IInv, PoolInv
<1> QED BY <1>5, <1>7, <1>8, <1>9

LEMMA FinishInv == ASSUME IInv, NEW s \in Scans, Finish(s) PROVE IInv'
<1>1. TypeOK /\ TypeOK' /\ ScanInv(s)
    BY FinishTypes DEF IInv
<1>2. /\ scan[s] = "running" /\ Len(replies[s]) = Len(ranges[s])
      /\ \A i \in DOMAIN replies[s] : replies[s][i].state = "taken"
      /\ UNCHANGED <<place, worker, queue, panics>>
    BY DEF Finish, Awaiting
<1>3. PICK how \in {"done", "query_failed"} : End(s, how)
    BY DEF Finish
<1>4. RunningInv(s)
    BY <1>1, <1>2 DEF ScanInv
<1>5. replies[s] \in Seq(ReplyType) /\ result[s] \in Seq(SUBSET Rows)
    BY <1>1 DEF TypeOK
<1>6. Len(result[s]) = Len(replies[s])
    <2>1. Len(result[s]) <= Len(replies[s]) /\ Len(replies[s]) \in Nat /\ Len(result[s]) \in Nat
        BY <1>4, <1>5 DEF RunningInv
    <2>2. CASE Len(replies[s]) = 0
        BY <2>1, <2>2
    <2>3. CASE Len(replies[s]) # 0
        <3>1. Len(replies[s]) \in DOMAIN replies[s]
            BY <1>5, <2>1, <2>3
        <3>2. Len(replies[s]) <= Len(result[s])
            BY <1>2, <1>4, <3>1 DEF RunningInv
        <3> QED BY <2>1, <3>2
    <2> QED BY <2>2, <2>3
<1> QED BY <1>1, <1>2, <1>3, <1>6, EndInv

(* The reply of a job: it changes the reply the job owes and no other, or  *)
(* none when its scan has ended.                                           *)
LEMMA AnswerScan ==
    ASSUME IInv, NEW w \in Pool, RunJob(w), NEW s \in Scans
    PROVE  ScanInv(s)'
<1> DEFINE job == Head(queue[w])
<1>1. TypeOK /\ QueueInv /\ ScanInv(s)
    BY DEF IInv
<1>2. queue[w] \in Seq(JobType) /\ queue[w] # <<>>
    BY <1>1 DEF TypeOK, RunJob
<1>3. 1 \in DOMAIN queue[w] /\ job = queue[w][1]
    BY <1>2
<1>4. job.scan \in Scans /\ job.part \in Nat \ {0} /\ Owed(job)
    BY <1>1, <1>3, JobTyped DEF QueueInv
<1>5. PICK reply \in {Reply("rows", RowsIn(job.range)), Reply("error", {})} : Answer(job, reply)
    BY DEF RunJob
<1> HIDE DEF job
<1>6. UNCHANGED <<place, scan, ranges, result, worker, writes, panics, places>>
    BY DEF RunJob
<1>7. panics \in Nat
    BY <1>1, Counters
<1>8. CASE ~(Awaited(job) /\ job.scan = s)
    <2>1. replies'[s] = replies[s]
        BY <1>1, <1>4, <1>5, <1>8 DEF TypeOK, Answer
    <2> QED BY <1>1, <1>6, <1>7, <2>1, ScanKept
<1>9. CASE Awaited(job) /\ job.scan = s
    <2> DEFINE i == job.part
    <2>1. i \in DOMAIN replies[s] /\ replies[s] \in Seq(ReplyType)
        BY <1>1, <1>9 DEF Awaited, TypeOK
    <2>2. scan[s] = "running"
        BY <1>1, <2>1, AwaitedRuns
    <2>3. RunningInv(s)
        BY <1>1, <2>2 DEF ScanInv
    <2>4. replies[s][i].state = "pending" /\ job.range = ranges[s][i]
        BY <1>4, <1>9, <2>2 DEF Owed
    <2>5. /\ DOMAIN replies'[s] = DOMAIN replies[s] /\ Len(replies'[s]) = Len(replies[s])
          /\ replies'[s][i] = reply
          /\ \A k \in DOMAIN replies[s] : k # i => replies'[s][k] = replies[s][k]
        BY <1>1, <1>5, <1>9, <2>1 DEF TypeOK, Answer
    <2>6. ~(i <= Len(result[s]))
        BY <2>1, <2>3, <2>4 DEF RunningInv
    <2>7. \/ reply.state = "error"
          \/ reply.state = "rows" /\ Seen(reply.rows, places[s], ranges[s][i])
        <3>1. \A r \in Rows : place[r] \in places[s][r]
            BY <2>3 DEF RunningInv
        <3>2. Seen(RowsIn(job.range), places[s], ranges[s][i])
            BY <2>4, <3>1, SeenNow
        <3> QED BY <1>5, <3>2 DEF Reply
    <2> HIDE DEF i
    <2>8. ASSUME NEW k \in DOMAIN replies'[s]
          PROVE  /\ replies'[s][k].state = "taken" <=> k <= Len(result'[s])
                 /\ replies'[s][k].state = "rows" =>
                       Seen(replies'[s][k].rows, places'[s], ranges'[s][k])
                 /\ replies'[s][k].state = "dropped" => panics' > 0
        <3>1. CASE k = i
            BY <1>6, <2>5, <2>6, <2>7, <3>1
        <3>2. CASE k # i
            BY <1>6, <2>3, <2>5, <2>8, <3>2 DEF RunningInv
        <3> QED BY <3>1, <3>2
    <2>9. RunningInv(s)'
        BY <1>6, <2>3, <2>5, <2>8 DEF RunningInv, Received
    <2> QED BY <1>6, <2>2, <2>9 DEF ScanInv
<1> QED BY <1>8, <1>9

LEMMA RunInv == ASSUME IInv, NEW w \in Pool, RunJob(w) PROVE IInv'
<1> DEFINE job == Head(queue[w])
<1>1. TypeOK /\ TypeOK' /\ QueueInv /\ PoolInv /\ \A t \in Scans : ScanInv(t)
    BY RunTypes DEF IInv
<1>2. queue[w] \in Seq(JobType) /\ queue[w] # <<>>
    BY <1>1 DEF TypeOK, RunJob
<1>3. 1 \in DOMAIN queue[w] /\ job = queue[w][1]
    BY <1>2
<1>4. job.scan \in Scans /\ job.part \in Nat \ {0} /\ Owed(job)
    BY <1>1, <1>3, JobTyped DEF QueueInv
<1>5. PICK reply \in {Reply("rows", RowsIn(job.range)), Reply("error", {})} : Answer(job, reply)
    BY DEF RunJob
<1>6. /\ queue' = [queue EXCEPT ![w] = Tail(@)]
      /\ UNCHANGED <<place, scan, ranges, result, worker, writes, panics, places>>
    BY DEF RunJob
<1> HIDE DEF job
<1>7. ASSUME NEW x \in Pool, NEW k \in DOMAIN queue'[x]
      PROVE  \E l \in DOMAIN queue[x] : /\ l = (IF x = w THEN k + 1 ELSE k)
                                        /\ queue'[x][k] = queue[x][l]
                                        /\ ~(x = w /\ l = 1)
    <2>1. CASE x # w
        <3>1. queue'[x] = queue[x]
            BY <1>1, <1>6, <2>1 DEF TypeOK
        <3> QED BY <1>7, <2>1, <3>1
    <2>2. CASE x = w
        <3>1. queue'[w] = Tail(queue[w])
            BY <1>1, <1>6 DEF TypeOK
        <3>2. k \in Nat \ {0} /\ k + 1 \in DOMAIN queue[w] /\ Tail(queue[w])[k] = queue[w][k + 1]
            BY <1>2, <1>7, <2>2, <3>1
        <3>3. k + 1 # 1
            BY <3>2
        <3> QED BY <2>2, <3>1, <3>2, <3>3
    <2> QED BY <2>1, <2>2
<1>8. ASSUME NEW x \in Pool, NEW l \in DOMAIN queue[x], ~(x = w /\ l = 1),
             NEW was, was = queue[x][l]
      PROVE  Owed(was)'
    <2>1. Owed(was) /\ was.scan \in Scans
        BY <1>1, <1>8, JobTyped DEF QueueInv
    <2>2. ~SamePart(was, job)
        BY <1>1, <1>3, <1>8 DEF QueueInv
    <2>3. CASE was.scan = job.scan /\ Awaited(job)
        <3> DEFINE s == was.scan
        <3>1. was.part # job.part
            BY <2>2, <2>3 DEF SamePart
        <3>2. replies[s] \in Seq(ReplyType) /\ job.part \in DOMAIN replies[s]
            BY <1>1, <2>1, <2>3 DEF TypeOK, Awaited
        <3>3. /\ DOMAIN replies'[s] = DOMAIN replies[s]
              /\ \A k \in DOMAIN replies[s] : k # job.part => replies'[s][k] = replies[s][k]
            BY <1>1, <1>5, <2>1, <2>3, <3>2 DEF TypeOK, Answer
        <3> QED BY <1>6, <2>1, <3>1, <3>3 DEF Owed
    <2>4. CASE ~(was.scan = job.scan /\ Awaited(job))
        <3>1. replies'[was.scan] = replies[was.scan]
            BY <1>1, <1>4, <1>5, <2>1, <2>4 DEF TypeOK, Answer
        <3> QED BY <1>6, <2>1, <3>1 DEF Owed
    <2> QED BY <2>3, <2>4
<1>9. ASSUME NEW x \in Pool, NEW k \in DOMAIN queue'[x] PROVE Owed(queue[x][k])'
    <2>1. PICK now : now = queue'[x][k]
        OBVIOUS
    <2>2. Owed(now)'
        BY <1>7, <1>8, <1>9, <2>1
    <2> QED BY <2>1, <2>2 DEF Owed
<1>10. ASSUME NEW x \in Pool, NEW y \in Pool, NEW k \in DOMAIN queue'[x],
              NEW l \in DOMAIN queue'[y], SamePart(queue'[x][k], queue'[y][l])
       PROVE  x = y /\ k = l
    <2>1. PICK a \in DOMAIN queue[x] : /\ a = (IF x = w THEN k + 1 ELSE k)
                                       /\ queue'[x][k] = queue[x][a]
        BY <1>7
    <2>2. PICK b \in DOMAIN queue[y] : /\ b = (IF y = w THEN l + 1 ELSE l)
                                       /\ queue'[y][l] = queue[y][b]
        BY <1>7
    <2>3. x = y /\ a = b
        BY <1>1, <1>10, <2>1, <2>2 DEF QueueInv
    <2>4. k \in Int /\ l \in Int
        BY <1>1 DEF TypeOK
    <2> QED BY <2>1, <2>2, <2>3, <2>4
<1>11. QueueInv'
    BY <1>9, <1>10 DEF QueueInv
<1>12. PoolInv'
    BY <1>1, <1>6 DEF PoolInv
<1> QED BY <1>1, <1>11, <1>12, AnswerScan DEF IInv

(* The jobs of a worker that panics: their replies are dropped, the others *)
(* stay.                                                                   *)
LEMMA PanicInv == ASSUME IInv, NEW w \in Pool, WorkerPanics(w) PROVE IInv'
<1>1. TypeOK /\ TypeOK' /\ QueueInv /\ PoolInv /\ \A t \in Scans : ScanInv(t)
    BY PanicTypes DEF IInv
<1>2. /\ panics' = panics + 1
      /\ queue' = [queue EXCEPT ![w] = <<>>]
      /\ worker' = [worker EXCEPT ![w] = "gone"]
      /\ UNCHANGED <<place, scan, ranges, result, writes, places>>
    BY DEF WorkerPanics
<1>3. replies' = [s \in Scans |-> [i \in DOMAIN replies[s] |->
                     IF <<s, i>> \in Dropped(w) THEN Reply("dropped", {}) ELSE replies[s][i]]]
    BY DEF WorkerPanics, AfterPanic
<1>4. panics \in Nat /\ panics' > 0
    BY <1>1, <1>2, Counters
<1>5. ASSUME NEW s \in Scans
      PROVE  /\ DOMAIN replies'[s] = DOMAIN replies[s]
             /\ Len(replies'[s]) = Len(replies[s])
             /\ \A i \in DOMAIN replies[s] :
                   replies'[s][i] = IF <<s, i>> \in Dropped(w) THEN Reply("dropped", {})
                                    ELSE replies[s][i]
    <2>1. replies[s] \in Seq(ReplyType) /\ replies'[s] \in Seq(ReplyType)
        BY <1>1 DEF TypeOK
    <2>2. replies'[s] = [i \in DOMAIN replies[s] |->
              IF <<s, i>> \in Dropped(w) THEN Reply("dropped", {}) ELSE replies[s][i]]
        BY <1>3
    <2>3. DOMAIN replies'[s] = DOMAIN replies[s]
        BY <2>2
    <2>4. Len(replies'[s]) = Len(replies[s])
        BY <2>1, <2>3
    <2> QED BY <2>2, <2>3, <2>4
<1>6. ASSUME NEW s \in Scans, NEW i \in DOMAIN replies[s], <<s, i>> \in Dropped(w)
      PROVE  replies[s][i].state = "pending"
    <2>1. PICK k \in DOMAIN queue[w] : queue[w][k].scan = s /\ queue[w][k].part = i
        BY <1>6 DEF Dropped
    <2>2. Owed(queue[w][k])
        BY <1>1 DEF QueueInv
    <2>3. scan[s] = "running"
        BY <1>1, <1>6, AwaitedRuns
    <2> QED BY <2>1, <2>2, <2>3 DEF Owed
<1>7. ASSUME NEW s \in Scans PROVE ScanInv(s)'
    <2>1. CASE scan[s] # "running"
        <3>1. replies[s] = <<>> /\ replies'[s] \in Seq(ReplyType)
            BY <1>1, <2>1, AwaitedRuns DEF TypeOK
        <3>2. replies'[s] = <<>>
            BY <1>5, <3>1
        <3>3. panics' >= panics /\ panics' \in Nat
            BY <1>2, <1>4
        <3> QED BY <1>1, <1>2, <1>4, <3>1, <3>2, <3>3, ScanKept
    <2>2. CASE scan[s] = "running"
        <3>1. RunningInv(s)
            BY <1>1, <2>2 DEF ScanInv
        <3>2. ASSUME NEW k \in DOMAIN replies'[s]
              PROVE  /\ replies'[s][k].state = "taken" <=> k <= Len(result'[s])
                     /\ replies'[s][k].state = "rows" =>
                           Seen(replies'[s][k].rows, places'[s], ranges'[s][k])
                     /\ replies'[s][k].state = "dropped" => panics' > 0
            <4>1. CASE <<s, k>> \in Dropped(w)
                <5>1. replies'[s][k].state = "dropped"
                    BY <1>5, <3>2, <4>1 DEF Reply
                <5>2. replies[s][k].state = "pending"
                    BY <1>5, <1>6, <3>2, <4>1
                <5> QED BY <1>2, <1>4, <1>5, <3>1, <3>2, <5>1, <5>2 DEF RunningInv
            <4>2. CASE <<s, k>> \notin Dropped(w)
                <5>1. k \in DOMAIN replies[s] /\ replies'[s][k] = replies[s][k]
                    BY <1>5, <3>2, <4>2
                <5> QED BY <1>2, <1>4, <3>1, <5>1 DEF RunningInv
            <4> QED BY <4>1, <4>2
        <3>3. RunningInv(s)'
            BY <1>2, <1>5, <3>1, <3>2 DEF RunningInv, Received
        <3> QED BY <1>2, <2>2, <3>3 DEF ScanInv
    <2> QED BY <2>1, <2>2
<1>8. ASSUME NEW x \in Pool, NEW k \in DOMAIN queue'[x]
      PROVE  x # w /\ k \in DOMAIN queue[x] /\ queue'[x][k] = queue[x][k]
    <2>1. queue'[w] = <<>> /\ (x # w => queue'[x] = queue[x])
        BY <1>1, <1>2 DEF TypeOK
    <2> QED BY <1>8, <2>1
<1>9. ASSUME NEW x \in Pool, x # w, NEW k \in DOMAIN queue[x], NEW was, was = queue[x][k]
      PROVE  Owed(was)'
    <2>1. Owed(was) /\ was.scan \in Scans
        BY <1>1, <1>9, JobTyped DEF QueueInv
    <2>2. <<was.scan, was.part>> \notin Dropped(w)
        <3>1. SUFFICES ASSUME <<was.scan, was.part>> \in Dropped(w) PROVE FALSE
            OBVIOUS
        <3>2. PICK l \in DOMAIN queue[w] :
                  queue[w][l].scan = was.scan /\ queue[w][l].part = was.part
            BY <3>1 DEF Dropped
        <3>3. SamePart(queue[w][l], queue[x][k])
            BY <1>9, <3>2 DEF SamePart
        <3> QED BY <1>1, <1>9, <3>3 DEF QueueInv
    <2> QED BY <1>2, <1>5, <2>1, <2>2 DEF Owed
<1>10. ASSUME NEW x \in Pool, NEW k \in DOMAIN queue'[x] PROVE Owed(queue[x][k])'
    <2>1. PICK now : now = queue'[x][k]
        OBVIOUS
    <2>2. Owed(now)'
        BY <1>8, <1>9, <1>10, <2>1
    <2> QED BY <2>1, <2>2 DEF Owed
<1>11. QueueInv'
    BY <1>1, <1>8, <1>10 DEF QueueInv
<1>12. PoolInv'
    BY <1>4 DEF PoolInv
<1> QED BY <1>1, <1>7, <1>11, <1>12 DEF IInv

(* Another client's write adds the row's new place to those of the scans   *)
(* that run.                                                               *)
LEMMA WriteInv == ASSUME IInv, NEW r \in Rows, Write(r) PROVE IInv'
<1>1. TypeOK /\ TypeOK' /\ QueueInv /\ PoolInv /\ \A t \in Scans : ScanInv(t)
    BY WriteTypes DEF IInv
<1>2. PICK p \in (0..MaxPage) \ {place[r]} : place' = [place EXCEPT ![r] = p]
    BY DEF Write
<1>3. /\ places' = [s \in Scans |-> IF scan[s] = "running"
                                    THEN [places[s] EXCEPT ![r] = @ \union {place'[r]}]
                                    ELSE places[s]]
      /\ UNCHANGED <<scan, ranges, replies, result, worker, queue, panics>>
    BY DEF Write
<1>4. ASSUME NEW s \in Scans PROVE ScanInv(s)'
    <2>1. CASE scan[s] # "running"
        <3>1. places'[s] = places[s]
            BY <1>3, <2>1
        <3>2. NewInv(s) => NewInv(s)'
            BY <1>3 DEF NewInv
        <3>3. EndedInv(s) => EndedInv(s)'
            BY <1>3, <3>1 DEF EndedInv
        <3> QED BY <1>1, <1>3, <2>1, <3>2, <3>3 DEF ScanInv
    <2>2. CASE scan[s] = "running"
        <3>1. RunningInv(s)
            BY <1>1, <2>2 DEF ScanInv
        <3>2. places[s] \in [Rows -> SUBSET (0..MaxPage)]
            BY <1>1 DEF TypeOK
        <3>3. /\ places'[s][r] = places[s][r] \union {place'[r]}
              /\ \A q \in Rows : q # r => places'[s][q] = places[s][q]
            BY <1>3, <2>2, <3>2
        <3>4. \A q \in Rows : place[q] \in places[s][q]
            BY <3>1 DEF RunningInv
        <3>5. \A q \in Rows : /\ places[s][q] \subseteq places'[s][q] /\ places[s][q] # {}
                              /\ place'[q] \in places'[s][q]
            BY <1>1, <1>2, <3>3, <3>4 DEF TypeOK
        <3>6. Received(ranges[s], places'[s], result[s])
            <4>1. Received(ranges[s], places[s], result[s])
                BY <3>1 DEF RunningInv
            <4> QED BY <3>5, <4>1, SeenMore DEF Received
        <3>7. ASSUME NEW k \in DOMAIN replies[s], replies[s][k].state = "rows"
              PROVE  Seen(replies[s][k].rows, places'[s], ranges[s][k])
            <4>1. Seen(replies[s][k].rows, places[s], ranges[s][k])
                BY <3>1, <3>7 DEF RunningInv
            <4> QED BY <3>5, <4>1, SeenMore
        <3>8. RunningInv(s)'
            BY <1>3, <3>1, <3>5, <3>6, <3>7 DEF RunningInv
        <3> QED BY <1>3, <2>2, <3>8 DEF ScanInv
    <2> QED BY <2>1, <2>2
<1>5. QueueInv' /\ PoolInv'
    BY <1>1, <1>3 DEF QueueInv, PoolInv, Owed
<1> QED BY <1>1, <1>4, <1>5 DEF IInv

LEMMA StepInv == IInv /\ [Next]_vars => IInv'
<1> SUFFICES ASSUME IInv, [Next]_vars PROVE IInv'
    OBVIOUS
<1>1. CASE UNCHANGED vars
    <2>1. TypeOK' /\ QueueInv' /\ PoolInv'
        BY <1>1 DEF IInv, vars, TypeOK, QueueInv, PoolInv, Owed
    <2>2. ASSUME NEW s \in Scans PROVE ScanInv(s)'
        <3>1. ScanInv(s) /\ panics \in Nat
            BY Counters DEF IInv
        <3> QED BY <1>1, <3>1, ScanKept DEF vars
    <2> QED BY <2>1, <2>2 DEF IInv
<1>2. CASE \E s \in Scans : CallerStep(s)
    BY <1>2, StartInv, CountInv, SendInv, AwaitInv, FinishInv DEF CallerStep
<1>3. CASE \E w \in Pool : RunJob(w) \/ WorkerPanics(w)
    BY <1>3, RunInv, PanicInv
<1>4. CASE \E r \in Rows : Write(r)
    BY <1>4, WriteInv
<1> QED BY <1>1, <1>2, <1>3, <1>4 DEF Next

LEMMA Invariance == Spec => []IInv
BY InitInv, StepInv, PTL DEF Spec

---------------------------------------------------------------------------
(* What a scan returns *)

(* Each copy of a row comes from a place of its own where the row has been. *)
LEMMA CopiesBound ==
    ASSUME NEW rs, NEW been \in [Rows -> SUBSET (0..MaxPage)], NEW got \in Seq(SUBSET Rows),
           Received(rs, been, got), NEW r \in Rows
    PROVE  /\ IsFiniteSet({i \in DOMAIN got : r \in got[i]})
           /\ Cardinality({i \in DOMAIN got : r \in got[i]}) \in Nat
           /\ Cardinality(been[r] \ {MaxPage}) \in 0..MaxPage
           /\ Cardinality({i \in DOMAIN got : r \in got[i]}) <= Cardinality(been[r] \ {MaxPage})
<1> DEFINE C == {i \in DOMAIN got : r \in got[i]}
           P == been[r] \ {MaxPage}
           at(i) == CHOOSE p \in P : InRange(p, rs[i])
           f == [i \in C |-> at(i)]
<1>1. MaxPage \in Nat \ {0} /\ Split(rs)
    BY Parameters DEF Received
<1>2. \A i \in DOMAIN got : i \in DOMAIN rs /\ Seen(got[i], been, rs[i])
    BY <1>1 DEF Received, Split
<1>3. P \in SUBSET (0..(MaxPage - 1))
    BY <1>1
<1>4. IsFiniteSet(0..(MaxPage - 1)) /\ Cardinality(0..(MaxPage - 1)) = MaxPage
    BY <1>1, FS_Interval
<1>5. IsFiniteSet(P) /\ Cardinality(P) <= MaxPage
    BY <1>3, <1>4, FS_Subset
<1>6. Cardinality(P) \in Nat
    BY <1>5, FS_CardinalityType
<1>7. ASSUME NEW i \in C PROVE \E p \in P : InRange(p, rs[i])
    <2>1. PICK p \in been[r] : InRange(p, rs[i])
        BY <1>2 DEF Seen
    <2>2. rs[i] \in (0..MaxPage) \X (0..MaxPage)
        BY <1>1, <1>2 DEF Split
    <2>3. p \in 0..MaxPage /\ rs[i][2] \in 0..MaxPage /\ p < rs[i][2]
        BY <2>1, <2>2 DEF InRange
    <2>4. p # MaxPage
        BY <1>1, <2>3
    <2> QED BY <2>1, <2>4
<1>8. \A i \in C : at(i) \in P /\ InRange(at(i), rs[i])
    BY <1>7
<1>9. f \in [C -> P]
    BY <1>8
<1>10. ASSUME NEW i \in C, NEW j \in C, f[i] = f[j] PROVE i = j
    <2>1. at(i) = at(j) /\ at(i) \in P /\ InRange(at(i), rs[i]) /\ InRange(at(j), rs[j])
        BY <1>8, <1>10
    <2> HIDE DEF at
    <2>2. PICK page : page = at(i)
        OBVIOUS
    <2>3. page \in Int /\ InRange(page, rs[i]) /\ InRange(page, rs[j])
        BY <1>1, <1>3, <2>1, <2>2
    <2>4. i \in DOMAIN rs /\ j \in DOMAIN rs
        BY <1>2
    <2> QED BY <1>1, <2>3, <2>4, SplitDisjoint
<1> HIDE DEF C, P, f
<1>11. f \in Injection(C, P)
    BY <1>9, <1>10 DEF Injection, IsInjective
<1>12. IsFiniteSet(C) /\ Cardinality(C) <= Cardinality(P)
    BY <1>5, <1>11, FS_Injection
<1>13. Cardinality(C) \in Nat
    BY <1>12, FS_CardinalityType
<1>14. Cardinality(P) \in 0..MaxPage
    BY <1>1, <1>5, <1>6
<1> QED BY <1>12, <1>13, <1>14 DEF C, P

(* A row that stayed in one place is in the one reply of its page's range. *)
LEMMA CopiesOfStable ==
    ASSUME NEW rs, NEW been \in [Rows -> SUBSET (0..MaxPage)], NEW got \in Seq(SUBSET Rows),
           Received(rs, been, got), Len(got) = Len(rs),
           NEW r \in Rows, NEW page \in 0..MaxPage, been[r] = {page}
    PROVE  /\ page = MaxPage => Cardinality({i \in DOMAIN got : r \in got[i]}) = 0
           /\ page # MaxPage => Cardinality({i \in DOMAIN got : r \in got[i]}) = 1
<1> DEFINE C == {i \in DOMAIN got : r \in got[i]}
<1>1. MaxPage \in Nat \ {0} /\ Split(rs) /\ page \in 0..MaxPage
    BY Parameters DEF Received
<1>2. DOMAIN rs = DOMAIN got
    BY <1>1 DEF Split
<1>3. \A i \in DOMAIN got : Seen(got[i], been, rs[i])
    BY DEF Received
<1>4. \A i \in DOMAIN got : r \in got[i] <=> InRange(page, rs[i])
    BY <1>3 DEF Seen
<1>5. CASE page = MaxPage
    <2>1. ASSUME NEW i \in DOMAIN got PROVE ~InRange(page, rs[i])
        <3>1. rs[i] \in (0..MaxPage) \X (0..MaxPage)
            BY <1>1, <1>2 DEF Split
        <3>2. rs[i][2] <= MaxPage /\ rs[i][2] \in Int
            BY <1>1, <3>1
        <3> QED BY <1>1, <1>5, <3>2 DEF InRange
    <2>2. C = {}
        BY <1>4, <2>1
    <2> QED BY <1>5, <2>2, FS_EmptySet
<1>6. CASE page # MaxPage
    <2>1. page \in 0..(MaxPage - 1)
        BY <1>1, <1>6
    <2>2. PICK i \in DOMAIN rs : InRange(page, rs[i])
        BY <1>1, <2>1 DEF Split
    <2>3. i \in C
        BY <1>2, <1>4, <2>2
    <2>4. ASSUME NEW j \in C PROVE j = i
        <3>1. page \in Int /\ j \in DOMAIN rs /\ InRange(page, rs[j])
            BY <1>1, <1>2, <1>4
        <3> QED BY <1>1, <2>2, <3>1, SplitDisjoint
    <2>5. C = {i}
        BY <2>3, <2>4
    <2> HIDE DEF C
    <2>6. Cardinality(C) = 1
        BY <2>5, FS_Singleton
    <2> QED BY <1>6, <2>6 DEF C
<1> QED BY <1>5, <1>6

LEMMA StablePlace ==
    ASSUME TypeOK, NEW s \in Scans, NEW r \in Stable(s)
    PROVE  r \in Rows /\ \E p \in 0..MaxPage : places[s][r] = {p}
<1>1. r \in Rows /\ Cardinality(places[s][r]) = 1
    BY DEF Stable
<1>2. places[s][r] \in SUBSET (0..MaxPage)
    BY <1>1 DEF TypeOK
<1>3. IsFiniteSet(0..MaxPage)
    BY Parameters, FS_Interval
<1>4. IsFiniteSet(places[s][r])
    BY <1>2, <1>3, FS_Subset
<1>5. \E p : places[s][r] = {p}
    BY <1>1, <1>4, FS_Singleton
<1> QED BY <1>1, <1>2, <1>5

(* A scan that holds rows has received the first of its ranges.            *)
LEMMA HasReceived ==
    ASSUME IInv, NEW s \in Scans, result[s] # <<>>
    PROVE  \E rs : Received(rs, places[s], result[s])
BY DEF IInv, ScanInv, NewInv, RunningInv, EndedInv

LEMMA OnceFromInv == IInv => StableRowsReadOnce
<1> SUFFICES ASSUME IInv, NEW s \in Scans, scan[s] = "done", NEW r \in Stable(s)
             PROVE  Returned(s, r) = IF places[s][r] = {Absent} THEN 0 ELSE 1
    BY DEF StableRowsReadOnce
<1>1. TypeOK /\ ScanInv(s)
    BY DEF IInv
<1>2. PICK rs : Received(rs, places[s], result[s]) /\ Len(result[s]) = Len(rs)
    BY <1>1 DEF ScanInv, EndedInv
<1>3. PICK page \in 0..MaxPage : places[s][r] = {page}
    BY <1>1, StablePlace
<1>4. r \in Rows
    BY <1>1, StablePlace
<1>5. places[s] \in [Rows -> SUBSET (0..MaxPage)] /\ result[s] \in Seq(SUBSET Rows)
    BY <1>1 DEF TypeOK
<1>6. /\ page = MaxPage => Cardinality({i \in DOMAIN result[s] : r \in result[s][i]}) = 0
      /\ page # MaxPage => Cardinality({i \in DOMAIN result[s] : r \in result[s][i]}) = 1
    <2> DEFINE been == places[s]
               got == result[s]
    <2>1. been \in [Rows -> SUBSET (0..MaxPage)] /\ got \in Seq(SUBSET Rows)
          /\ Received(rs, been, got) /\ Len(got) = Len(rs) /\ been[r] = {page}
        BY <1>2, <1>3, <1>5
    <2> HIDE DEF been, got
    <2>2. /\ page = MaxPage => Cardinality({i \in DOMAIN got : r \in got[i]}) = 0
          /\ page # MaxPage => Cardinality({i \in DOMAIN got : r \in got[i]}) = 1
        BY <1>4, <2>1, CopiesOfStable
    <2> QED BY <2>2 DEF got
<1> QED BY <1>3, <1>6 DEF Returned, Absent

LEMMA OrderFromInv == IInv => ReadInPageOrder
<1> SUFFICES ASSUME IInv, NEW s \in Scans,
                    NEW i \in DOMAIN result[s], NEW j \in DOMAIN result[s], i < j,
                    NEW q \in result[s][i] \intersect Stable(s),
                    NEW r \in result[s][j] \intersect Stable(s),
                    NEW p \in places[s][q], NEW o \in places[s][r]
             PROVE  p < o
    BY DEF ReadInPageOrder
<1>1. TypeOK
    BY DEF IInv
<1>2. result[s] \in Seq(SUBSET Rows) /\ result[s] # <<>>
    BY <1>1 DEF TypeOK
<1>3. PICK rs : Received(rs, places[s], result[s])
    BY <1>2, HasReceived
<1>4. Split(rs) /\ i \in DOMAIN rs /\ j \in DOMAIN rs
    <2>1. Split(rs) /\ Len(result[s]) <= Len(rs)
        BY <1>3 DEF Received
    <2>2. DOMAIN result[s] = 1..Len(result[s]) /\ Len(result[s]) \in Nat
        BY <1>2
    <2>3. DOMAIN rs = 1..Len(rs) /\ Len(rs) \in Nat
        BY <2>1 DEF Split
    <2> QED BY <2>1, <2>2, <2>3
<1>5. Seen(result[s][i], places[s], rs[i]) /\ Seen(result[s][j], places[s], rs[j])
    BY <1>3 DEF Received
<1>6. places[s][q] = {p} /\ places[s][r] = {o} /\ p \in 0..MaxPage /\ o \in 0..MaxPage
    BY <1>1, StablePlace
<1>7. InRange(p, rs[i]) /\ InRange(o, rs[j])
    BY <1>5, <1>6 DEF Seen
<1>8. rs[i] \in (0..MaxPage) \X (0..MaxPage) /\ rs[j] \in (0..MaxPage) \X (0..MaxPage)
    BY <1>4 DEF Split
<1>9. rs[i][2] <= rs[j][1]
    BY <1>4 DEF Split
<1>10. p < rs[i][2] /\ rs[j][1] <= o
    BY <1>7 DEF InRange
<1>11. rs[i][2] \in Int /\ rs[j][1] \in Int /\ p \in Int /\ o \in Int
    BY <1>6, <1>8, Parameters
<1> QED BY <1>9, <1>10, <1>11

LEMMA IsolatedFromInv == IInv => FailuresAreIsolated
BY DEF IInv, FailuresAreIsolated, ScanInv, EndedInv

---------------------------------------------------------------------------
(* The promise of TableScan *)

LEMMA MapKept ==
    ASSUME scan' = scan, \A t \in Scans : scan[t] = "done" => result'[t] = result[t]
    PROVE  /\ [t \in Scans |-> Outcome(t)]' = [t \in Scans |-> Outcome(t)]
           /\ [t \in Scans |-> [r \in Rows |-> Returned(t, r)]]'
              = [t \in Scans |-> [r \in Rows |-> Returned(t, r)]]
<1>1. \A t \in Scans : Outcome(t)' = Outcome(t)
    BY DEF Outcome
<1>2. \A t \in Scans : \A r \in Rows : Returned(t, r)' = Returned(t, r)
    BY DEF Returned
<1> QED BY <1>1, <1>2

(* TableScan counts as ParallelScan does.                                  *)
LEMMA PromiseCounts == \A S : Promise!Cardinality(S) = Cardinality(S)
BY DEF Promise!Cardinality, Cardinality

LEMMA PromisedInit == Init => Promise!Init
<1> SUFFICES ASSUME Init PROVE Promise!Init
    OBVIOUS
<1>1. place \in [Rows -> (0..(MaxPage - 1)) \union {MaxPage}]
    <2>1. 0..MaxPage = (0..(MaxPage - 1)) \union {MaxPage}
        BY Parameters
    <2>2. place \in [Rows -> 0..MaxPage]
        BY Parameters DEF Init
    <2> QED BY <2>1, <2>2
<1>2. [s \in Scans |-> Outcome(s)] = [s \in Scans |-> "new"]
    BY DEF Init, Outcome
<1>3. [s \in Scans |-> [r \in Rows |-> Returned(s, r)]] = [s \in Scans |-> [r \in Rows |-> 0]]
    BY DEF Init, Returned
<1>4. places = [s \in Scans |-> [r \in Rows |-> {}]]
    BY DEF Init
<1> QED BY <1>1, <1>2, <1>3, <1>4 DEF Promise!Init, Promise!Nowhere, Promise!NoCopies

LEMMA PromisedStart ==
    ASSUME IInv, NEW s \in Scans, Start(s), ~End(s, "panicked")
    PROVE  Promise!Start(s)
<1>1. TypeOK
    BY DEF IInv
<1>2. /\ scan[s] = "new" /\ scan' = [scan EXCEPT ![s] = "running"]
      /\ places' = [places EXCEPT ![s] = [r \in Rows |-> {place[r]}]]
      /\ UNCHANGED <<place, result>>
    BY DEF Start
<1>3. [t \in Scans |-> Outcome(t)]' = [[t \in Scans |-> Outcome(t)] EXCEPT ![s] = "running"]
    BY <1>1, <1>2 DEF Outcome, TypeOK
<1>4. [t \in Scans |-> [r \in Rows |-> Returned(t, r)]]'
      = [t \in Scans |-> [r \in Rows |-> Returned(t, r)]]
    <2>1. \A t \in Scans : \A r \in Rows : Returned(t, r)' = Returned(t, r)
        BY <1>1, <1>2 DEF Returned, TypeOK
    <2> QED BY <2>1
<1>5. [t \in Scans |-> Outcome(t)][s] = "new"
    BY <1>2 DEF Outcome
<1> QED BY <1>2, <1>3, <1>4, <1>5 DEF Promise!Start

LEMMA PromisedFail ==
    ASSUME IInv, NEW s \in Scans, scan[s] \in {"new", "running"},
           NEW how \in {"panicked", "query_failed", "worker_gone", "reply_dropped"},
           End(s, how), place' = place
    PROVE  Promise!Fail(s)
<1>1. TypeOK
    BY DEF IInv
<1>2. /\ scan' = [scan EXCEPT ![s] = how]
      /\ result' = [result EXCEPT ![s] = <<>>]
      /\ places' = [places EXCEPT ![s] = [r \in Rows |-> {}]]
    BY DEF End
<1>3. [t \in Scans |-> Outcome(t)]' = [[t \in Scans |-> Outcome(t)] EXCEPT ![s] = "failed"]
    BY <1>1, <1>2 DEF Outcome, TypeOK
<1>4. [t \in Scans |-> [r \in Rows |-> Returned(t, r)]]'
      = [t \in Scans |-> [r \in Rows |-> Returned(t, r)]]
    <2>1. \A t \in Scans : \A r \in Rows : Returned(t, r)' = Returned(t, r)
        BY <1>1, <1>2 DEF Returned, TypeOK
    <2> QED BY <2>1
<1>5. [t \in Scans |-> Outcome(t)][s] \in {"new", "running"}
    BY DEF Outcome
<1> QED BY <1>2, <1>3, <1>4, <1>5 DEF Promise!Fail, Promise!Nowhere

(* The moment of the last reply: no row that stayed is missing or doubled. *)
LEMMA PromisedReturn ==
    ASSUME IInv, IInv', NEW s \in Scans, scan[s] = "running", End(s, "done"), place' = place
    PROVE  Promise!Return(s)
<1>1. TypeOK /\ TypeOK' /\ ScanInv(s)'
    BY DEF IInv
<1>2. scan' = [scan EXCEPT ![s] = "done"] /\ UNCHANGED <<result, places>> /\ scan'[s] = "done"
    BY <1>1 DEF End, TypeOK
<1>3. [t \in Scans |-> Outcome(t)]' = [[t \in Scans |-> Outcome(t)] EXCEPT ![s] = "done"]
    BY <1>1, <1>2 DEF Outcome, TypeOK
<1>4. [t \in Scans |-> Outcome(t)][s] = "running"
    BY DEF Outcome
<1>5. PICK rs : Received(rs, places[s], result[s]) /\ Len(result[s]) = Len(rs)
    BY <1>1, <1>2 DEF ScanInv, EndedInv
<1>6. places[s] \in [Rows -> SUBSET (0..MaxPage)] /\ result[s] \in Seq(SUBSET Rows)
    BY <1>1 DEF TypeOK
<1>7. ASSUME NEW t \in Scans, NEW r \in Rows
      PROVE  Returned(t, r)' \in 0..MaxPage
    <2>1. CASE scan'[t] # "done"
        BY <2>1, Parameters DEF Returned
    <2>2. CASE scan'[t] = "done"
        <3>1. ScanInv(t)' /\ places'[t] \in [Rows -> SUBSET (0..MaxPage)]
              /\ result'[t] \in Seq(SUBSET Rows)
            BY <1>1 DEF IInv, TypeOK
        <3>2. PICK qs : Received(qs, places'[t], result'[t])
            BY <2>2, <3>1 DEF ScanInv, EndedInv
        <3>3. /\ Cardinality({i \in DOMAIN result'[t] : r \in result'[t][i]}) \in Nat
              /\ Cardinality(places'[t][r] \ {MaxPage}) \in 0..MaxPage
              /\ Cardinality({i \in DOMAIN result'[t] : r \in result'[t][i]})
                 <= Cardinality(places'[t][r] \ {MaxPage})
            BY <3>1, <3>2, CopiesBound
        <3>4. Cardinality({i \in DOMAIN result'[t] : r \in result'[t][i]}) \in 0..MaxPage
            BY <3>3, Parameters
        <3> QED BY <2>2, <3>4 DEF Returned
    <2> QED BY <2>1, <2>2
<1>8. [t \in Scans |-> [r \in Rows |-> Returned(t, r)]]'
      \in [Scans -> [Rows -> 0..Cardinality(0..(MaxPage - 1))]]
    <2>1. Cardinality(0..(MaxPage - 1)) = MaxPage
        BY Parameters, FS_Interval
    <2> QED BY <1>7, <2>1
<1>9. \A t \in Scans \ {s} :
          [u \in Scans |-> [r \in Rows |-> Returned(u, r)]]'[t]
          = [u \in Scans |-> [r \in Rows |-> Returned(u, r)]][t]
    <2>1. \A t \in Scans \ {s} : \A r \in Rows : Returned(t, r)' = Returned(t, r)
        BY <1>1, <1>2 DEF Returned, TypeOK
    <2> QED BY <2>1
<1>10. ASSUME NEW r \in Rows
       PROVE  Returned(s, r)' \in Promise!Copies(places[s][r])
    <2> DEFINE C == {i \in DOMAIN result[s] : r \in result[s][i]}
               P == places[s][r] \ {MaxPage}
    <2>1. Returned(s, r)' = Cardinality(C)
        BY <1>2 DEF Returned
    <2>2. Cardinality(C) \in Nat /\ Cardinality(P) \in 0..MaxPage
          /\ Cardinality(C) <= Cardinality(P)
        BY <1>5, <1>6, CopiesBound
    <2>3. Cardinality(C) \in 0..Cardinality(P)
        BY <2>2, Parameters
    <2>4. ASSUME Cardinality(places[s][r]) = 1
          PROVE  Cardinality(C) = Cardinality(P)
        <3>1. r \in Stable(s)
            BY <2>4 DEF Stable
        <3>2. PICK page \in 0..MaxPage : places[s][r] = {page}
            BY <1>1, <3>1, StablePlace
        <3>3. /\ page = MaxPage => Cardinality(C) = 0
              /\ page # MaxPage => Cardinality(C) = 1
            <4> DEFINE been == places[s]
                       got == result[s]
            <4>1. been \in [Rows -> SUBSET (0..MaxPage)] /\ got \in Seq(SUBSET Rows)
                  /\ been[r] = {page}
                BY <1>6, <3>2
            <4>2. Received(rs, been, got) /\ Len(got) = Len(rs)
                BY <1>5
            <4>3. C = {i \in DOMAIN got : r \in got[i]}
                OBVIOUS
            <4> HIDE DEF been, got, C
            <4>4. /\ page = MaxPage => Cardinality({i \in DOMAIN got : r \in got[i]}) = 0
                  /\ page # MaxPage => Cardinality({i \in DOMAIN got : r \in got[i]}) = 1
                BY <4>1, <4>2, CopiesOfStable
            <4> QED BY <4>3, <4>4
        <3>4. page = MaxPage => P = {}
            BY <3>2
        <3>5. page # MaxPage => P = {page}
            BY <3>2
        <3> HIDE DEF C, P
        <3>6. page = MaxPage => Cardinality(P) = 0
            BY <3>4, FS_EmptySet
        <3>7. page # MaxPage => Cardinality(P) = 1
            BY <3>5, FS_Singleton
        <3> QED BY <3>3, <3>6, <3>7
    <2> HIDE DEF C, P
    <2>5. Promise!Copies(places[s][r]) = IF Cardinality(places[s][r]) = 1 THEN {Cardinality(P)}
                                         ELSE 0..Cardinality(P)
        BY PromiseCounts DEF Promise!Copies, P
    <2> QED BY <2>1, <2>3, <2>4, <2>5
<1>11. \A r \in Rows :
          [t \in Scans |-> [q \in Rows |-> Returned(t, q)]]'[s][r] \in Promise!Copies(places[s][r])
    BY <1>10
<1> QED BY <1>2, <1>3, <1>4, <1>8, <1>9, <1>11, PromiseCounts DEF Promise!Return

LEMMA PromisedWrite ==
    ASSUME IInv, NEW r \in Rows, Write(r)
    PROVE  Promise!Write(r)
<1>1. scan' = scan /\ result' = result
    BY DEF Write
<1>2. [t \in Scans |-> Outcome(t)]' = [t \in Scans |-> Outcome(t)]
      /\ [t \in Scans |-> [q \in Rows |-> Returned(t, q)]]'
         = [t \in Scans |-> [q \in Rows |-> Returned(t, q)]]
    BY <1>1, MapKept
<1>3. 0..MaxPage = (0..(MaxPage - 1)) \union {MaxPage}
    BY Parameters
<1>4. \E p \in ((0..(MaxPage - 1)) \union {MaxPage}) \ {place[r]} :
          place' = [place EXCEPT ![r] = p]
    BY <1>3 DEF Write
<1>5. \A t \in Scans : [u \in Scans |-> Outcome(u)][t] = "running" <=> scan[t] = "running"
    BY DEF Outcome
<1>6. places' = [t \in Scans |-> IF scan[t] = "running"
                                 THEN [places[t] EXCEPT ![r] = @ \union {place'[r]}]
                                 ELSE places[t]]
    BY DEF Write
<1>7. places' = [t \in Scans |-> IF [u \in Scans |-> Outcome(u)][t] = "running"
                                 THEN [places[t] EXCEPT ![r] = @ \union {place'[r]}]
                                 ELSE places[t]]
    BY <1>5, <1>6
<1> QED BY <1>2, <1>4, <1>7 DEF Promise!Write

LEMMA PromisedStep == IInv /\ IInv' /\ [Next]_vars => [Promise!Next]_Promise!vars
<1> SUFFICES ASSUME IInv, IInv', [Next]_vars PROVE [Promise!Next]_Promise!vars
    OBVIOUS
<1>1. ASSUME scan' = scan, place' = place, places' = places,
             \A t \in Scans : scan[t] = "done" => result'[t] = result[t]
      PROVE  UNCHANGED Promise!vars
    BY <1>1, MapKept DEF Promise!vars
<1>2. CASE UNCHANGED vars
    BY <1>1, <1>2 DEF vars
<1>3. ASSUME NEW s \in Scans, Start(s) \/ CountFails(s) PROVE Promise!Next
    <2>1. place' = place /\ scan[s] = "new"
        BY <1>3 DEF Start, CountFails
    <2>2. CASE Start(s) /\ ~End(s, "panicked")
        BY <2>2, PromisedStart DEF Promise!Next
    <2>3. CASE End(s, "panicked") \/ CountFails(s)
        BY <2>1, <2>3, PromisedFail DEF CountFails, Promise!Next
    <2> QED BY <1>3, <2>2, <2>3
<1>4. ASSUME NEW s \in Scans, SendJob(s) PROVE [Promise!Next]_Promise!vars
    <2>1. place' = place /\ scan[s] = "running"
        BY <1>4 DEF SendJob
    <2>2. End(s, "worker_gone") \/ UNCHANGED <<scan, result, places>>
        BY <1>4 DEF SendJob
    <2> QED BY <1>1, <2>1, <2>2, PromisedFail DEF Promise!Next
<1>5. ASSUME NEW s \in Scans, AwaitReply(s) PROVE [Promise!Next]_Promise!vars
    <2>1. place' = place /\ scan[s] = "running" /\ TypeOK
        BY <1>5 DEF AwaitReply, Awaiting, IInv
    <2>2. \/ End(s, "query_failed") \/ End(s, "reply_dropped")
          \/ /\ UNCHANGED <<scan, places>>
             /\ \E more : result' = [result EXCEPT ![s] = more]
        BY <1>5 DEF AwaitReply
    <2>3. CASE UNCHANGED <<scan, places>> /\ \E more : result' = [result EXCEPT ![s] = more]
        <3>1. \A t \in Scans : scan[t] = "done" => result'[t] = result[t]
            BY <2>1, <2>3 DEF TypeOK
        <3> QED BY <1>1, <2>1, <2>3, <3>1
    <2>4. CASE End(s, "query_failed") \/ End(s, "reply_dropped")
        BY <2>1, <2>4, PromisedFail DEF Promise!Next
    <2> QED BY <2>2, <2>3, <2>4
<1>6. ASSUME NEW s \in Scans, Finish(s) PROVE Promise!Next
    <2>1. place' = place /\ scan[s] = "running"
        BY <1>6 DEF Finish, Awaiting
    <2>2. End(s, "done") \/ End(s, "query_failed")
        BY <1>6 DEF Finish
    <2>3. Promise!Return(s) \/ Promise!Fail(s)
        BY <2>1, <2>2, PromisedReturn, PromisedFail
    <2> QED BY <2>3 DEF Promise!Next
<1>7. ASSUME NEW w \in Pool, RunJob(w) \/ WorkerPanics(w) PROVE UNCHANGED Promise!vars
    BY <1>1, <1>7 DEF RunJob, WorkerPanics
<1>8. ASSUME NEW r \in Rows, Write(r) PROVE Promise!Next
    BY <1>8, PromisedWrite DEF Promise!Next
<1> QED BY <1>2, <1>3, <1>4, <1>5, <1>6, <1>7, <1>8 DEF Next, CallerStep

---------------------------------------------------------------------------
(* Theorems *)

(* The state stays well typed, and a dead worker's channel stays empty.    *)
THEOREM ScansTypeCorrect == Spec => []TypeOK
<1>1. IInv => TypeOK
    BY DEF IInv
<1> QED BY <1>1, Invariance, PTL

(* A scan that returns has read each row that nobody wrote meanwhile once  *)
(* if it is in the table and never if it is not.                           *)
THEOREM StableRowsAreReadOnce == Spec => []StableRowsReadOnce
BY OnceFromInv, Invariance, PTL

(* The rows come back in page order, whatever worker answers first.        *)
THEOREM RowsComeInPageOrder == Spec => []ReadInPageOrder
BY OrderFromInv, Invariance, PTL

(* A scan is refused for a dead worker only when the driver killed one.    *)
THEOREM FailuresStayIsolated == Spec => []FailuresAreIsolated
BY IsolatedFromInv, Invariance, PTL

(* Every step of the scans, the workers and the other clients is a step of *)
(* TableScan or none: the rows a scan returns, at the moment it returns,   *)
(* are all of those that stayed, once, and of the others at most a copy    *)
(* for each place.  That each scan ends is model-checked.                  *)
THEOREM ScansReadOneTable == Spec => Promise!Init /\ [][Promise!Next]_Promise!vars
BY PromisedInit, PromisedStep, Invariance, PTL DEF Spec

=============================================================================
