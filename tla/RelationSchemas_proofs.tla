---------------------- MODULE RelationSchemas_proofs ----------------------
(***************************************************************************)
(* Decimal columns and the schemas of relations, for any values, precision *)
(* and number of partitions and batches: a table's schema is its batches'; *)
(* partitioning does not show in a column that one type can hold; and a    *)
(* relation that no Parquet fetch's schema got into conforms to its schema *)
(* and is read as it was computed, however often it is spilled and merged. *)
(***************************************************************************)
EXTENDS RelationSchemas, FiniteSetTheorems, NaturalsInduction, TLAPS

---------------------------------------------------------------------------
(* The inductive invariant of Decimals *)

Cells   == {"exact", "rounded", "null"}
CellsOf == UNION {[S -> Cells] : S \in SUBSET Values}
Columns == [scale : Scales, cells : CellsOf]
Tables  == [scale : Scales, batches : Seq(Columns), ended : BOOLEAN]

Digits(values) == {v.frac : v \in values}
Width(values) == WidestOf(Digits(values))
(* Values that one Decimal128 type holds exactly.                          *)
FitOneType(values) ==
    \A v \in values : v.frac <= MaxScale /\ v.whole + Width(values) <= Precision

ValuesIn(columns) == UNION {DOMAIN columns[b].cells : b \in DOMAIN columns}
AllExact(columns) ==
    \A b \in DOMAIN columns : \A v \in DOMAIN columns[b].cells : columns[b].cells[v] = "exact"

(* A table that holds these values exactly, and in the scale they need,    *)
(* whenever one type can.                                                  *)
Exactly(table, values) ==
    FitOneType(values) => table.scale = Width(values) /\ AllExact(table.batches)

(* What was made of the batches of one fetch.                              *)
FetchOK(table, batches) ==
    /\ table \in Tables /\ Agrees(table)
    /\ DOMAIN table.batches = DOMAIN batches
    /\ \A b \in DOMAIN batches : DOMAIN table.batches[b].cells = batches[b]
    /\ Exactly(table, ValuesIn(table.batches))

DecimalsInv ==
    /\ raw \in Seq(Seq(SUBSET Values)) /\ fetched \in Seq(Tables)
    /\ Len(raw) = Len(fetched) /\ Len(fetched) <= Fetches
    /\ \A f \in DOMAIN fetched : FetchOK(fetched[f], raw[f])
    /\ result \in Tables /\ Agrees(result)
    /\ result.ended => Exactly(result, AllValues)

---------------------------------------------------------------------------
(* Numbers *)

LEMMA Parameters ==
    /\ Values \subseteq [whole : Nat, frac : Nat]
    /\ Precision \in Nat /\ MaxScale \in Nat /\ MaxScale <= Precision
    /\ Fetches \in Nat /\ MaxBatches \in Nat
BY DecimalsAssumption

(* Every set of numbers that is not empty has a least one.                 *)
LEMMA LeastNumber ==
    ASSUME NEW T \in SUBSET Nat, T # {}
    PROVE  \E n \in T : \A m \in T : n <= m
<1> DEFINE R == OpToRel(<, Nat)
<1>1. \A x, y \in Nat : x < y => <<x, y>> \in R
    BY DEF OpToRel
<1>2. IsWellFoundedOn(R, Nat)
    BY NatLessThanWellFounded, Zenon
<1> HIDE DEF R
<1>3. PICK n \in T : \A m \in T : ~(<<m, n>> \in R)
    BY <1>2, WFMin
<1>4. \A m \in T : m \in Nat /\ n \in Nat /\ ~(m < n)
    BY <1>1, <1>3
<1> QED BY <1>4

(* Induction on numbers, as a fact about sets.                             *)
LEMMA NumberInduction ==
    ASSUME NEW T \in SUBSET Nat, 0 \in T, \A n \in T : n + 1 \in T
    PROVE  T = Nat
<1> SUFFICES ASSUME Nat \ T # {} PROVE FALSE
    OBVIOUS
<1>1. PICK n \in Nat \ T : \A m \in Nat \ T : n <= m
    BY LeastNumber
<1>2. n # 0 /\ n - 1 \in Nat
    BY <1>1
<1>3. n - 1 \in T
    BY <1>1, <1>2
<1>4. (n - 1) + 1 \in T
    BY <1>3
<1> QED BY <1>1, <1>4

(* The widest of some numbers of digits, when they are bounded.            *)
LEMMA WidestFacts ==
    ASSUME NEW digits, NEW limit \in Nat, digits \subseteq 0..limit
    PROVE  /\ WidestOf(digits) \in 0..limit
           /\ \A d \in digits : d <= WidestOf(digits)
           /\ WidestOf(digits) = 0 \/ WidestOf(digits) \in digits
<1> DEFINE D == digits \union {0}
           above == {n \in Nat : \A d \in D : d <= n}
<1>1. D \subseteq 0..limit /\ limit \in above
    OBVIOUS
<1>2. PICK least \in above : \A n \in above : least <= n
    <2>1. above \in SUBSET Nat /\ above # {}
        BY <1>1
    <2> HIDE DEF above
    <2> QED BY <2>1, LeastNumber
<1>3. least \in D
    <2>1. SUFFICES ASSUME least \notin D PROVE FALSE
        OBVIOUS
    <2>2. \A d \in D : d < least
        BY <1>1, <1>2, <2>1
    <2>3. least # 0 /\ least - 1 \in Nat
        BY <1>2, <2>2
    <2>4. least - 1 \in above
        BY <1>1, <1>2, <2>2, <2>3
    <2> QED BY <1>2, <2>3, <2>4
<1>4. \A d \in D : least >= d
    BY <1>1, <1>2
<1> HIDE DEF D
<1>5. Max(D) \in D /\ \A d \in D : Max(D) >= d
    BY <1>3, <1>4, Zenon DEF Max
<1>6. WidestOf(digits) = Max(D)
    BY DEF WidestOf, D
<1> QED BY <1>1, <1>5, <1>6 DEF D

(* The widest of a set is the number that bounds it and is in it.          *)
LEMMA WidestIs ==
    ASSUME NEW digits, NEW limit \in Nat, digits \subseteq 0..limit,
           NEW w \in Nat, \A d \in digits : d <= w, w = 0 \/ w \in digits
    PROVE  WidestOf(digits) = w
<1>1. /\ WidestOf(digits) \in 0..limit
      /\ \A d \in digits : d <= WidestOf(digits)
      /\ WidestOf(digits) = 0 \/ WidestOf(digits) \in digits
    BY WidestFacts
<1>2. WidestOf(digits) <= w
    BY <1>1
<1>3. w <= WidestOf(digits)
    BY <1>1
<1> QED BY <1>1, <1>2, <1>3

---------------------------------------------------------------------------
(* Columns *)

LEMMA CellsFacts ==
    /\ \A S \in SUBSET Values : \A cells \in [S -> Cells] : cells \in CellsOf
    /\ \A cells \in CellsOf : DOMAIN cells \in SUBSET Values /\ cells \in [DOMAIN cells -> Cells]
BY DEF CellsOf

LEMMA ColumnFacts ==
    ASSUME NEW column \in Columns
    PROVE  /\ column.scale \in Scales /\ column.scale \in 0..MaxScale
           /\ DOMAIN column.cells \in SUBSET Values
           /\ \A v \in DOMAIN column.cells : column.cells[v] \in Cells
<1>1. column.scale \in Scales /\ column.cells \in CellsOf
    BY DEF Columns
<1> QED BY <1>1, CellsFacts DEF Scales

LEMMA ColumnType ==
    ASSUME NEW scale \in Scales, NEW S \in SUBSET Values, NEW cells \in [S -> Cells]
    PROVE  Column(scale, cells) \in Columns
BY CellsFacts DEF Column, Columns

LEMMA CastType == \A v, scale : Cast(v, scale) \in Cells
BY DEF Cast, Cells

LEMMA RecastType ==
    ASSUME NEW v, NEW cell \in Cells, NEW scale
    PROVE  Recast(v, cell, scale) \in Cells
BY CastType DEF Recast, Cells

(* Sequences given by a function on their indices.                         *)
LEMMA Indexed ==
    ASSUME NEW S, NEW n \in Nat, NEW f \in [1..n -> S]
    PROVE  f \in Seq(S) /\ Len(f) = n /\ DOMAIN f = 1..n
OBVIOUS

(* The width of values that fit one type is what one of them needs.        *)
LEMMA FitFacts ==
    ASSUME NEW values \in SUBSET Values, FitOneType(values)
    PROVE  /\ Width(values) \in 0..MaxScale
           /\ \A v \in values : v.frac \in 0..MaxScale /\ v.frac <= Width(values)
           /\ Width(values) = 0 \/ \E v \in values : v.frac = Width(values)
           /\ \A v \in values : Cast(v, Width(values)) = "exact"
<1>1. \A v \in values : v.frac \in 0..MaxScale /\ v.whole + Width(values) <= Precision
    BY Parameters DEF FitOneType
<1>2. Digits(values) \subseteq 0..MaxScale
    BY <1>1 DEF Digits
<1>3. /\ Width(values) \in 0..MaxScale
      /\ \A d \in Digits(values) : d <= Width(values)
      /\ Width(values) = 0 \/ Width(values) \in Digits(values)
    BY <1>2, WidestFacts, Parameters DEF Width
<1>4. \A v \in values : v.frac <= Width(values)
    BY <1>3 DEF Digits
<1>5. Width(values) = 0 \/ \E v \in values : v.frac = Width(values)
    BY <1>3 DEF Digits
<1>6. ASSUME NEW v \in values PROVE Cast(v, Width(values)) = "exact"
    <2>1. v.whole \in Nat /\ v.frac \in Nat
        BY Parameters
    <2>2. ~(v.whole + Width(values) > Precision) /\ ~(v.frac > Width(values))
        BY <1>1, <1>3, <1>4, <2>1, Parameters
    <2> QED BY <2>2 DEF Cast
<1> QED BY <1>1, <1>3, <1>4, <1>5, <1>6

(* Fewer values fit where more do, and need no more.                       *)
LEMMA FitFewer ==
    ASSUME NEW values \in SUBSET Values, FitOneType(values), NEW some \in SUBSET values
    PROVE  FitOneType(some) /\ Width(some) <= Width(values) /\ Width(some) \in 0..MaxScale
<1>1. /\ Width(values) \in 0..MaxScale
      /\ \A v \in values : v.frac \in 0..MaxScale /\ v.frac <= Width(values)
    BY FitFacts
<1>2. Digits(some) \subseteq 0..MaxScale
    BY <1>1 DEF Digits
<1>3. /\ Width(some) \in 0..MaxScale
      /\ Width(some) = 0 \/ Width(some) \in Digits(some)
    BY <1>2, WidestFacts, Parameters DEF Width
<1>4. Width(some) <= Width(values)
    <2>1. CASE Width(some) = 0
        BY <1>1, <2>1
    <2>2. CASE Width(some) \in Digits(some)
        BY <1>1, <2>2 DEF Digits
    <2> QED BY <1>3, <2>1, <2>2
<1>5. ASSUME NEW v \in some PROVE v.frac <= MaxScale /\ v.whole + Width(some) <= Precision
    <2>1. v.whole \in Nat /\ v.frac <= MaxScale /\ v.whole + Width(values) <= Precision
        BY Parameters DEF FitOneType
    <2> QED BY <1>1, <1>3, <1>4, <2>1, Parameters
<1> QED BY <1>3, <1>4, <1>5 DEF FitOneType

---------------------------------------------------------------------------
(* Reconciling *)

LEMMA RenderedFacts ==
    ASSUME NEW columns \in Seq(Columns)
    PROVE  UNION {RenderedDigits(columns[b]) : b \in DOMAIN columns} \subseteq 0..MaxScale
<1> SUFFICES ASSUME NEW b \in DOMAIN columns PROVE RenderedDigits(columns[b]) \subseteq 0..MaxScale
    OBVIOUS
<1>1. columns[b] \in Columns
    OBVIOUS
<1> QED BY <1>1, ColumnFacts DEF RenderedDigits

(* What reconcile_executed returns: a table whose batches have its scale,  *)
(* with a cell for each cell there was.                                    *)
LEMMA ReconciledType ==
    ASSUME NEW scale \in Scales, NEW columns \in Seq(Columns)
    PROVE  /\ Reconciled(scale, columns) \in Tables
           /\ Reconciled(scale, columns).ended
           /\ Agrees(Reconciled(scale, columns))
           /\ DOMAIN Reconciled(scale, columns).batches = DOMAIN columns
           /\ \A b \in DOMAIN columns :
                 DOMAIN Reconciled(scale, columns).batches[b].cells = DOMAIN columns[b].cells
<1>1. CASE ~Disagree(scale, columns)
    <2>1. Reconciled(scale, columns) = Table(scale, columns)
        BY <1>1 DEF Reconciled
    <2> QED BY <1>1, <2>1 DEF Table, Tables, Agrees, Disagree
<1>2. CASE Disagree(scale, columns)
    <2> DEFINE wide == WidestOf(UNION {RenderedDigits(columns[b]) : b \in DOMAIN columns})
               recast(b) == Column(wide, [v \in DOMAIN columns[b].cells |->
                                             Recast(v, columns[b].cells[v], wide)])
               batches == [b \in DOMAIN columns |-> recast(b)]
    <2>1. wide \in Scales
        BY RenderedFacts, WidestFacts, Parameters DEF Scales
    <2>2. Reconciled(scale, columns) = Table(wide, batches)
        BY <1>2 DEF Reconciled
    <2> HIDE DEF wide
    <2>3. ASSUME NEW b \in DOMAIN columns
          PROVE  /\ recast(b) \in Columns /\ recast(b).scale = wide
                 /\ DOMAIN recast(b).cells = DOMAIN columns[b].cells
        <3> DEFINE S == DOMAIN columns[b].cells
                   cells == [v \in S |-> Recast(v, columns[b].cells[v], wide)]
        <3>1. columns[b] \in Columns
            OBVIOUS
        <3>2. S \in SUBSET Values /\ \A v \in S : columns[b].cells[v] \in Cells
            BY <3>1, ColumnFacts
        <3> HIDE DEF S
        <3>3. cells \in [S -> Cells]
            BY <3>2, RecastType
        <3>4. recast(b) = Column(wide, cells)
            BY DEF S
        <3>5. DOMAIN cells = S
            OBVIOUS
        <3> HIDE DEF cells
        <3>6. Column(wide, cells) \in Columns
            BY <2>1, <3>2, <3>3, ColumnType
        <3>7. Column(wide, cells).scale = wide /\ DOMAIN Column(wide, cells).cells = S
            BY <3>5 DEF Column
        <3> QED BY <3>4, <3>6, <3>7 DEF S
    <2> HIDE DEF recast
    <2>4. batches \in [1..Len(columns) -> Columns] /\ Len(columns) \in Nat
          /\ DOMAIN columns = 1..Len(columns)
        BY <2>3
    <2>5. \A b \in DOMAIN columns : batches[b] = recast(b)
        OBVIOUS
    <2> HIDE DEF batches
    <2>6. batches \in Seq(Columns) /\ DOMAIN batches = DOMAIN columns
        BY <2>4, Indexed
    <2>7. Table(wide, batches) \in Tables /\ Table(wide, batches).ended
          /\ Table(wide, batches).scale = wide /\ Table(wide, batches).batches = batches
        BY <2>1, <2>6 DEF Table, Tables
    <2> QED BY <2>2, <2>3, <2>5, <2>6, <2>7 DEF Agrees
<1> QED BY <1>1, <1>2

(* Columns that are exact so far, at scales no wider than all their values *)
(* need together, are exact afterwards, at the scale those values need.    *)
LEMMA ReconciledExact ==
    ASSUME NEW scale \in Scales, NEW columns \in Seq(Columns), NEW values \in SUBSET Values,
           values = ValuesIn(columns), FitOneType(values), scale <= Width(values),
           AllExact(columns),
           \A b \in DOMAIN columns :
              /\ columns[b].scale <= Width(values)
              /\ \A v \in DOMAIN columns[b].cells : v.frac <= columns[b].scale
    PROVE  /\ Reconciled(scale, columns).scale = Width(values)
           /\ AllExact(Reconciled(scale, columns).batches)
<1> DEFINE W == Width(values)
<1>1. /\ W \in 0..MaxScale
      /\ \A v \in values : v.frac \in 0..MaxScale /\ v.frac <= W
      /\ W = 0 \/ \E v \in values : v.frac = W
      /\ \A v \in values : Cast(v, W) = "exact"
    BY FitFacts
<1>2. \A b \in DOMAIN columns : \A v \in DOMAIN columns[b].cells : v \in values
    BY DEF ValuesIn
<1>3. \A v \in values : \E b \in DOMAIN columns : v \in DOMAIN columns[b].cells
    BY DEF ValuesIn
<1>4. \A b \in DOMAIN columns : columns[b].scale \in 0..MaxScale /\ columns[b].scale <= W
    BY ColumnFacts
<1>5. W \in Nat /\ scale \in Nat /\ scale <= W
    BY <1>1, Parameters DEF Scales
<1>6. \A b \in DOMAIN columns : \A v \in DOMAIN columns[b].cells :
          v.frac <= columns[b].scale /\ columns[b].cells[v] = "exact"
    BY DEF AllExact
<1> HIDE DEF W
<1>7. CASE ~Disagree(scale, columns)
    <2>1. Reconciled(scale, columns) = Table(scale, columns)
        BY <1>7 DEF Reconciled
    <2>2. W <= scale
        <3>1. CASE W = 0
            BY <1>5, <3>1
        <3>2. CASE \E v \in values : v.frac = W
            <4>1. PICK v \in values : v.frac = W
                BY <3>2
            <4>2. PICK b \in DOMAIN columns : v \in DOMAIN columns[b].cells
                BY <1>3
            <4>3. columns[b].scale = scale
                BY <1>7 DEF Disagree
            <4> QED BY <1>6, <4>1, <4>2, <4>3
        <3> QED BY <1>1, <3>1, <3>2
    <2>3. scale = W
        BY <1>5, <2>2
    <2>4. AllExact(columns)
        OBVIOUS
    <2> QED BY <2>1, <2>3, <2>4 DEF Table, W
<1>8. CASE Disagree(scale, columns)
    <2> DEFINE rendered == UNION {RenderedDigits(columns[b]) : b \in DOMAIN columns}
               wide == WidestOf(rendered)
    <2>1. Reconciled(scale, columns)
            = Table(wide, [b \in DOMAIN columns |->
                  Column(wide, [v \in DOMAIN columns[b].cells |->
                                   Recast(v, columns[b].cells[v], wide)])])
        BY <1>8 DEF Reconciled
    <2>2. rendered \subseteq 0..MaxScale
        BY RenderedFacts
    <2>3. \A d \in rendered : \E b \in DOMAIN columns : d = columns[b].scale
        BY DEF RenderedDigits
    <2>4. \A b \in DOMAIN columns : DOMAIN columns[b].cells # {} => columns[b].scale \in rendered
        <3> SUFFICES ASSUME NEW b \in DOMAIN columns, NEW v \in DOMAIN columns[b].cells
                     PROVE  columns[b].scale \in RenderedDigits(columns[b])
            OBVIOUS
        <3>1. columns[b].cells[v] # "null"
            BY <1>6
        <3> QED BY <3>1 DEF RenderedDigits
    <2>5. \A d \in rendered : d <= W
        BY <1>4, <2>3
    <2>6. W = 0 \/ W \in rendered
        <3>1. SUFFICES ASSUME NEW v \in values, v.frac = W PROVE W \in rendered
            BY <1>1
        <3>2. PICK b \in DOMAIN columns : v \in DOMAIN columns[b].cells
            BY <1>3
        <3>3. columns[b].scale \in rendered /\ W <= columns[b].scale
            BY <1>6, <2>4, <3>1, <3>2
        <3>4. columns[b].scale \in Nat /\ columns[b].scale <= W
            BY <1>4, Parameters
        <3> QED BY <1>5, <3>3, <3>4
    <2> HIDE DEF rendered
    <2>7. wide = W
        BY <1>5, <2>2, <2>5, <2>6, WidestIs, Parameters
    <2> HIDE DEF wide
    <2>8. \A b \in DOMAIN columns : \A v \in DOMAIN columns[b].cells :
              Recast(v, columns[b].cells[v], wide) = "exact"
        BY <1>1, <1>2, <1>6, <2>7 DEF Recast
    <2>9. Reconciled(scale, columns).scale = wide
          /\ Reconciled(scale, columns).batches
               = [b \in DOMAIN columns |->
                  Column(wide, [v \in DOMAIN columns[b].cells |->
                                   Recast(v, columns[b].cells[v], wide)])]
        BY <2>1 DEF Table
    <2>10. AllExact(Reconciled(scale, columns).batches)
        <3> DEFINE now == Reconciled(scale, columns).batches
        <3>1. /\ DOMAIN now = DOMAIN columns
              /\ \A b \in DOMAIN columns :
                    now[b].cells = [v \in DOMAIN columns[b].cells |->
                                       Recast(v, columns[b].cells[v], wide)]
            BY <2>9 DEF Column
        <3> HIDE DEF now
        <3>2. ASSUME NEW b \in DOMAIN columns, NEW v \in DOMAIN now[b].cells
              PROVE  now[b].cells[v] = "exact"
            <4>1. v \in DOMAIN columns[b].cells
                BY <3>1, <3>2
            <4>2. now[b].cells[v] = Recast(v, columns[b].cells[v], wide)
                BY <3>1, <4>1
            <4> QED BY <2>8, <4>1, <4>2
        <3>3. AllExact(now)
            BY <3>1, <3>2 DEF AllExact
        <3> QED BY <3>3 DEF now
    <2> QED BY <2>7, <2>9, <2>10 DEF W
<1> QED BY <1>7, <1>8

---------------------------------------------------------------------------
(* Fetches *)

(* A fetch whose columns hold the server's values, and hold them exactly   *)
(* when they fit, is reconciled to one that does.                          *)
LEMMA FetchReconciled ==
    ASSUME NEW scale \in Scales, NEW columns \in Seq(Columns), NEW batches,
           DOMAIN columns = DOMAIN batches,
           \A b \in DOMAIN batches : DOMAIN columns[b].cells = batches[b],
           FitOneType(ValuesIn(columns)) =>
              /\ scale <= Width(ValuesIn(columns)) /\ AllExact(columns)
              /\ \A b \in DOMAIN columns :
                    /\ columns[b].scale <= Width(ValuesIn(columns))
                    /\ \A v \in DOMAIN columns[b].cells : v.frac <= columns[b].scale
    PROVE  FetchOK(Reconciled(scale, columns), batches)
<1> DEFINE t == Reconciled(scale, columns)
<1>1. /\ t \in Tables /\ Agrees(t) /\ DOMAIN t.batches = DOMAIN columns
      /\ \A b \in DOMAIN columns : DOMAIN t.batches[b].cells = DOMAIN columns[b].cells
    BY ReconciledType
<1>2. ValuesIn(columns) \in SUBSET Values
    <2>1. \A b \in DOMAIN columns : DOMAIN columns[b].cells \in SUBSET Values
        BY ColumnFacts
    <2> QED BY <2>1 DEF ValuesIn
<1>3. FitOneType(ValuesIn(columns)) =>
          t.scale = Width(ValuesIn(columns)) /\ AllExact(t.batches)
    BY <1>2, ReconciledExact
<1> HIDE DEF t
<1>4. ValuesIn(t.batches) = ValuesIn(columns)
    BY <1>1 DEF ValuesIn
<1> QED BY <1>1, <1>3, <1>4 DEF FetchOK, Exactly, t

(* The cells of one batch cast to a scale.                                 *)
LEMMA CastColumn ==
    ASSUME NEW batch \in SUBSET Values, NEW scale \in Scales
    PROVE  /\ Column(scale, [v \in batch |-> Cast(v, scale)]) \in Columns
           /\ Column(scale, [v \in batch |-> Cast(v, scale)]).scale = scale
           /\ DOMAIN Column(scale, [v \in batch |-> Cast(v, scale)]).cells = batch
           /\ \A v \in batch :
                 Column(scale, [u \in batch |-> Cast(u, scale)]).cells[v] = Cast(v, scale)
<1> DEFINE cells == [v \in batch |-> Cast(v, scale)]
<1>1. cells \in [batch -> Cells] /\ \A v \in batch : cells[v] = Cast(v, scale)
    BY CastType
<1> HIDE DEF cells
<1>2. Column(scale, cells) \in Columns
    BY <1>1, ColumnType
<1> QED BY <1>1, <1>2 DEF Column, cells

LEMMA StringFacts ==
    ASSUME NEW batch \in SUBSET Values
    PROVE  /\ StringDigits(batch) \subseteq 0..MaxScale
           /\ (\A v \in batch : v.frac <= MaxScale) => StringDigits(batch) = Digits(batch)
<1>1. \A v \in batch : v.frac \in Nat
    BY Parameters
<1>2. \A v \in batch : (IF v.frac < MaxScale THEN v.frac ELSE MaxScale) \in 0..MaxScale
    BY <1>1, Parameters
<1>3. ASSUME \A v \in batch : v.frac <= MaxScale PROVE StringDigits(batch) = Digits(batch)
    <2>1. \A v \in batch : (IF v.frac < MaxScale THEN v.frac ELSE MaxScale) = v.frac
        BY <1>1, <1>3, Parameters
    <2> QED BY <2>1 DEF StringDigits, Digits
<1> QED BY <1>2, <1>3 DEF StringDigits

(* A marked fetch.                                                         *)
LEMMA NormalizedFetch ==
    ASSUME NEW batches \in Seq(SUBSET Values)
    PROVE  FetchOK(Reconciled(Normalized(batches).scale, Normalized(batches).batches), batches)
<1> DEFINE digits == UNION {StringDigits(batches[b]) : b \in DOMAIN batches}
           scale == WidestOf(digits)
           col(b) == Column(scale, [v \in batches[b] |-> Cast(v, scale)])
           columns == [b \in DOMAIN batches |-> col(b)]
<1>1. \A b \in DOMAIN batches : batches[b] \in SUBSET Values
    OBVIOUS
<1>2. digits \subseteq 0..MaxScale
    <2>1. \A b \in DOMAIN batches : StringDigits(batches[b]) \subseteq 0..MaxScale
        BY <1>1, StringFacts
    <2> QED BY <2>1
<1>3. Normalized(batches).scale = scale /\ Normalized(batches).batches = columns
    BY DEF Normalized, Table
<1>4. scale \in Scales /\ scale \in 0..MaxScale
    <2> HIDE DEF digits
    <2> QED BY <1>2, WidestFacts, Parameters DEF Scales
<1> HIDE DEF scale
<1>5. \A b \in DOMAIN batches : /\ col(b) \in Columns /\ col(b).scale = scale
                                /\ DOMAIN col(b).cells = batches[b]
                                /\ \A v \in batches[b] : col(b).cells[v] = Cast(v, scale)
    <2> TAKE b \in DOMAIN batches
    <2>1. PICK batch \in SUBSET Values : batch = batches[b]
        BY <1>1
    <2>2. col(b) = Column(scale, [v \in batch |-> Cast(v, scale)])
        BY <2>1
    <2> HIDE DEF col
    <2>3. /\ col(b) \in Columns /\ col(b).scale = scale /\ DOMAIN col(b).cells = batch
          /\ \A v \in batch : col(b).cells[v] = Cast(v, scale)
        <3> DEFINE c == Column(scale, [v \in batch |-> Cast(v, scale)])
        <3>1. c \in Columns /\ c.scale = scale /\ DOMAIN c.cells = batch
            BY <1>4, CastColumn
        <3>2. \A v \in batch : c.cells[v] = Cast(v, scale)
            BY <1>4, CastColumn
        <3>3. col(b) = c
            BY <2>2
        <3> HIDE DEF c
        <3> QED BY <3>1, <3>2, <3>3
    <2> QED BY <2>1, <2>3
<1> HIDE DEF col
<1>6. columns \in Seq(Columns) /\ DOMAIN columns = DOMAIN batches
      /\ \A b \in DOMAIN batches : columns[b] = col(b)
    <2>1. columns \in [1..Len(batches) -> Columns] /\ Len(batches) \in Nat
          /\ DOMAIN batches = 1..Len(batches)
        BY <1>5
    <2>2. \A b \in DOMAIN batches : columns[b] = col(b)
        OBVIOUS
    <2> HIDE DEF columns
    <2> QED BY <2>1, <2>2, Indexed
<1> HIDE DEF columns
<1> DEFINE values == ValuesIn(columns)
<1>7. /\ \A b \in DOMAIN batches : \A v \in batches[b] : v \in values
      /\ \A v \in values : \E b \in DOMAIN batches : v \in batches[b]
      /\ values \in SUBSET Values
    BY <1>1, <1>5, <1>6 DEF ValuesIn
<1> HIDE DEF values
<1>8. ASSUME FitOneType(values)
      PROVE  scale = Width(values) /\ AllExact(columns)
    <2>1. /\ Width(values) \in 0..MaxScale
          /\ \A v \in values : v.frac \in 0..MaxScale /\ v.frac <= Width(values)
          /\ \A v \in values : Cast(v, Width(values)) = "exact"
        BY <1>7, <1>8, FitFacts
    <2>2. \A b \in DOMAIN batches : StringDigits(batches[b]) = Digits(batches[b])
        <3> SUFFICES ASSUME NEW b \in DOMAIN batches
                     PROVE StringDigits(batches[b]) = Digits(batches[b])
            OBVIOUS
        <3>1. \A v \in batches[b] : v.frac <= MaxScale
            BY <1>7, <2>1, Parameters
        <3> QED BY <1>1, <3>1, StringFacts
    <2>3. \A d : d \in digits <=> d \in Digits(values)
        <3>1. ASSUME NEW d \in digits PROVE d \in Digits(values)
            <4>1. PICK b \in DOMAIN batches : d \in Digits(batches[b])
                BY <2>2
            <4> QED BY <1>7, <4>1 DEF Digits
        <3>2. ASSUME NEW d \in Digits(values) PROVE d \in digits
            <4>1. PICK v \in values : d = v.frac
                BY DEF Digits
            <4>2. PICK b \in DOMAIN batches : v \in batches[b]
                BY <1>7
            <4>3. d \in StringDigits(batches[b])
                BY <2>2, <4>1, <4>2 DEF Digits
            <4> QED BY <4>3
        <3> QED BY <3>1, <3>2
    <2>4. digits = Digits(values)
        BY <2>3
    <2>5. scale = Width(values)
        BY <2>4 DEF scale, Width
    <2>6. AllExact(columns)
        BY <1>5, <1>6, <1>7, <2>1, <2>5 DEF AllExact
    <2> QED BY <2>5, <2>6
<1>9. FitOneType(values) =>
         /\ scale <= Width(values) /\ AllExact(columns)
         /\ \A b \in DOMAIN columns :
               /\ columns[b].scale <= Width(values)
               /\ \A v \in DOMAIN columns[b].cells : v.frac <= columns[b].scale
    <2> SUFFICES ASSUME FitOneType(values)
                 PROVE  /\ scale <= Width(values) /\ AllExact(columns)
                        /\ \A b \in DOMAIN columns :
                              /\ columns[b].scale <= Width(values)
                              /\ \A v \in DOMAIN columns[b].cells : v.frac <= columns[b].scale
        OBVIOUS
    <2>1. scale = Width(values) /\ AllExact(columns) /\ scale \in Int
        BY <1>4, <1>8, Parameters
    <2>2. \A v \in values : v.frac <= Width(values)
        BY <1>7, FitFacts
    <2> QED BY <1>5, <1>6, <1>7, <2>1, <2>2
<1>10. \A b \in DOMAIN batches : DOMAIN columns[b].cells = batches[b]
    BY <1>5, <1>6
<1> QED BY <1>3, <1>4, <1>6, <1>9, <1>10, FetchReconciled DEF values

(* A fetch that lost its mark: each batch has the scale its values need.   *)
LEMMA UnmarkedFetch ==
    ASSUME NEW batches \in Seq(SUBSET Values)
    PROVE  FetchOK(Reconciled(Unmarked(batches).scale, Unmarked(batches).batches), batches)
<1> DEFINE own(b) == WidestOf(StringDigits(batches[b]))
           col(b) == Column(own(b), [v \in batches[b] |-> Cast(v, own(b))])
           columns == [b \in DOMAIN batches |-> col(b)]
<1>1. \A b \in DOMAIN batches : batches[b] \in SUBSET Values
    OBVIOUS
<1>2. Unmarked(batches).scale = 0 /\ Unmarked(batches).batches = columns
    BY DEF Unmarked, Table
<1>3. ASSUME NEW b \in DOMAIN batches
      PROVE  own(b) \in Scales /\ own(b) \in 0..MaxScale
    <2>1. StringDigits(batches[b]) \subseteq 0..MaxScale
        BY <1>1, StringFacts
    <2> QED BY <2>1, WidestFacts, Parameters DEF Scales
<1>4. ASSUME NEW b \in DOMAIN batches
      PROVE  /\ col(b) \in Columns /\ col(b).scale = own(b)
             /\ DOMAIN col(b).cells = batches[b]
             /\ \A v \in batches[b] : col(b).cells[v] = Cast(v, own(b))
    <2>1. PICK batch \in SUBSET Values : batch = batches[b]
        BY <1>1
    <2>2. PICK scale \in Scales : scale = own(b)
        BY <1>3
    <2> HIDE DEF own
    <2>3. col(b) = Column(scale, [v \in batch |-> Cast(v, scale)])
        BY <2>1, <2>2
    <2> HIDE DEF col
    <2>4. /\ col(b) \in Columns /\ col(b).scale = scale /\ DOMAIN col(b).cells = batch
          /\ \A v \in batch : col(b).cells[v] = Cast(v, scale)
        <3> DEFINE c == Column(scale, [v \in batch |-> Cast(v, scale)])
        <3>1. c \in Columns /\ c.scale = scale /\ DOMAIN c.cells = batch
            BY CastColumn
        <3>2. \A v \in batch : c.cells[v] = Cast(v, scale)
            BY CastColumn
        <3>3. col(b) = c
            BY <2>3
        <3> HIDE DEF c
        <3> QED BY <3>1, <3>2, <3>3
    <2> QED BY <2>1, <2>2, <2>4
<1> HIDE DEF own, col
<1>5. columns \in Seq(Columns) /\ DOMAIN columns = DOMAIN batches
      /\ \A b \in DOMAIN batches : columns[b] = col(b)
    <2>1. columns \in [1..Len(batches) -> Columns] /\ Len(batches) \in Nat
          /\ DOMAIN batches = 1..Len(batches)
        BY <1>4
    <2>2. \A b \in DOMAIN batches : columns[b] = col(b)
        OBVIOUS
    <2> HIDE DEF columns
    <2> QED BY <2>1, <2>2, Indexed
<1> HIDE DEF columns
<1> DEFINE values == ValuesIn(columns)
<1>6. /\ \A b \in DOMAIN batches : batches[b] \in SUBSET values
      /\ values \in SUBSET Values
    BY <1>1, <1>4, <1>5 DEF ValuesIn
<1> HIDE DEF values
<1>7. ASSUME FitOneType(values), NEW b \in DOMAIN batches
      PROVE  /\ own(b) <= Width(values)
             /\ \A v \in batches[b] : v.frac <= own(b) /\ Cast(v, own(b)) = "exact"
    <2>1. FitOneType(batches[b]) /\ Width(batches[b]) <= Width(values)
        BY <1>6, <1>7, FitFewer
    <2>2. /\ \A v \in batches[b] : v.frac \in 0..MaxScale /\ v.frac <= Width(batches[b])
          /\ \A v \in batches[b] : Cast(v, Width(batches[b])) = "exact"
        BY <1>1, <2>1, FitFacts
    <2>3. StringDigits(batches[b]) = Digits(batches[b])
        BY <1>1, <2>2, StringFacts, Parameters
    <2>4. own(b) = Width(batches[b])
        BY <2>3 DEF own, Width
    <2> QED BY <2>1, <2>2, <2>4
<1>8. FitOneType(values) =>
         /\ 0 <= Width(values) /\ AllExact(columns)
         /\ \A b \in DOMAIN columns :
               /\ columns[b].scale <= Width(values)
               /\ \A v \in DOMAIN columns[b].cells : v.frac <= columns[b].scale
    <2> SUFFICES ASSUME FitOneType(values)
                 PROVE  /\ 0 <= Width(values) /\ AllExact(columns)
                        /\ \A b \in DOMAIN columns :
                              /\ columns[b].scale <= Width(values)
                              /\ \A v \in DOMAIN columns[b].cells : v.frac <= columns[b].scale
        OBVIOUS
    <2>1. 0 <= Width(values)
        BY <1>6, FitFacts
    <2>2. AllExact(columns)
        BY <1>4, <1>5, <1>7 DEF AllExact
    <2> QED BY <1>4, <1>5, <1>7, <2>1, <2>2
<1>9. 0 \in Scales
    BY Parameters DEF Scales
<1>10. \A b \in DOMAIN batches : DOMAIN columns[b].cells = batches[b]
    BY <1>4, <1>5
<1> QED BY <1>2, <1>5, <1>8, <1>9, <1>10, FetchReconciled DEF values

---------------------------------------------------------------------------
(* The batches of every fetch, one fetch after the other                   *)

IsJoin(g, parts, n) ==
    g = [m \in 0..n |-> IF m = 0 THEN <<>> ELSE g[m - 1] \o parts[m].batches]

LEMMA JoinExists ==
    ASSUME NEW parts, NEW n \in Nat
    PROVE  \E g : IsJoin(g, parts, n)
<1> DEFINE T == {m \in Nat : \E g : IsJoin(g, parts, m)}
<1>1. 0 \in T
    <2> DEFINE h == [m \in 0..0 |-> <<>>]
    <2>1. h = [m \in 0..0 |-> IF m = 0 THEN <<>> ELSE h[m - 1] \o parts[m].batches]
        OBVIOUS
    <2> HIDE DEF h
    <2>2. IsJoin(h, parts, 0)
        BY <2>1 DEF IsJoin
    <2> QED BY <2>2
<1>2. ASSUME NEW m \in T PROVE m + 1 \in T
    <2>1. PICK g : IsJoin(g, parts, m)
        OBVIOUS
    <2>2. g = [i \in 0..m |-> IF i = 0 THEN <<>> ELSE g[i - 1] \o parts[i].batches]
        BY <2>1 DEF IsJoin
    <2> DEFINE Of(f, i) == IF i = 0 THEN <<>> ELSE f[i - 1] \o parts[i].batches
               h == [i \in 0..(m + 1) |-> IF i = m + 1 THEN Of(g, i) ELSE g[i]]
    <2>3. ASSUME NEW i \in 0..(m + 1) PROVE h[i] = Of(h, i)
        <3>1. i # 0 => i - 1 \in 0..(m + 1) /\ i - 1 # m + 1
            OBVIOUS
        <3>2. i # 0 => h[i - 1] = g[i - 1]
            BY <3>1
        <3>3. Of(h, i) = Of(g, i)
            <4> HIDE DEF h
            <4> QED BY <3>2
        <3>4. CASE i = m + 1
            <4>1. h[i] = Of(g, i)
                BY <3>4
            <4> QED BY <3>3, <4>1
        <3>5. CASE i # m + 1
            <4>1. i \in 0..m /\ h[i] = g[i]
                BY <3>5
            <4>2. g[i] = Of(g, i)
                BY <2>2, <4>1
            <4> QED BY <3>3, <4>1, <4>2
        <3> QED BY <3>4, <3>5
    <2>4. h = [i \in 0..(m + 1) |-> h[i]]
        OBVIOUS
    <2> HIDE DEF h, Of
    <2>5. h = [i \in 0..(m + 1) |-> Of(h, i)]
        BY <2>3, <2>4
    <2>6. IsJoin(h, parts, m + 1)
        BY <2>5 DEF IsJoin, Of
    <2> QED BY <2>6
<1>3. T \in SUBSET Nat
    OBVIOUS
<1> HIDE DEF T
<1>4. T = Nat
    BY <1>1, <1>2, <1>3, NumberInduction
<1> QED BY <1>4 DEF T

(* It holds every batch of every fetch, and nothing else.                  *)
LEMMA JoinFacts ==
    ASSUME NEW parts \in Seq(Tables), NEW g, IsJoin(g, parts, Len(parts))
    PROVE  /\ g[Len(parts)] \in Seq(Columns)
           /\ \A k \in DOMAIN g[Len(parts)] :
                 \E f \in DOMAIN parts : \E b \in DOMAIN parts[f].batches :
                    g[Len(parts)][k] = parts[f].batches[b]
           /\ \A f \in DOMAIN parts : \A b \in DOMAIN parts[f].batches :
                 \E k \in DOMAIN g[Len(parts)] : g[Len(parts)][k] = parts[f].batches[b]
<1> DEFINE L == Len(parts)
           From(s, n) == \A k \in DOMAIN s : \E f \in 1..n : \E b \in DOMAIN parts[f].batches :
                            s[k] = parts[f].batches[b]
           Has(s, n) == \A f \in 1..n : \A b \in DOMAIN parts[f].batches :
                            \E k \in DOMAIN s : s[k] = parts[f].batches[b]
           Good(s, n) == s \in Seq(Columns) /\ From(s, n) /\ Has(s, n)
           T == {n \in Nat : n <= L => Good(g[n], n)}
<1>1. L \in Nat /\ DOMAIN parts = 1..L /\ \A f \in 1..L : parts[f] \in Tables
    OBVIOUS
<1>2. g = [m \in 0..L |-> IF m = 0 THEN <<>> ELSE g[m - 1] \o parts[m].batches]
    BY DEF IsJoin
<1> HIDE DEF L
<1>3. 0 \in T
    <2>1. g[0] = <<>>
        BY <1>1, <1>2
    <2>2. Good(<<>>, 0)
        OBVIOUS
    <2> HIDE DEF Good
    <2> QED BY <2>1, <2>2
<1>4. ASSUME NEW n \in T PROVE n + 1 \in T
    <2> SUFFICES ASSUME n + 1 <= L PROVE Good(g[n + 1], n + 1)
        BY <1>4
    <2>1. n \in Nat /\ n <= L /\ n + 1 \in 1..L
        BY <1>1
    <2>2. Good(g[n], n)
        BY <2>1
    <2>3. (n + 1) - 1 = n /\ n + 1 \in 0..L /\ n + 1 # 0
        BY <1>1, <2>1
    <2>4. g[n + 1] = g[n] \o parts[n + 1].batches
        <3>1. g[n + 1] = g[(n + 1) - 1] \o parts[n + 1].batches
            BY <1>2, <2>3
        <3> QED BY <2>3, <3>1
    <2>5. PICK s : s = g[n]
        OBVIOUS
    <2>6. PICK t : t = parts[n + 1].batches
        OBVIOUS
    <2>7. s \in Seq(Columns) /\ From(s, n) /\ Has(s, n)
        BY <2>2, <2>5
    <2>8. t \in Seq(Columns)
        <3>1. parts[n + 1] \in Tables
            BY <1>1, <2>1
        <3> QED BY <2>6, <3>1 DEF Tables
    <2> HIDE DEF From, Has
    <2>9. s \o t \in Seq(Columns)
        BY <2>7, <2>8
    <2>10. /\ Len(s) \in Nat /\ Len(t) \in Nat /\ DOMAIN s = 1..Len(s) /\ DOMAIN t = 1..Len(t)
           /\ DOMAIN (s \o t) = 1..(Len(s) + Len(t))
           /\ \A k \in 1..Len(s) : (s \o t)[k] = s[k]
           /\ \A k \in 1..Len(t) : (s \o t)[Len(s) + k] = t[k]
        BY <2>7, <2>8
    <2>11. From(s \o t, n + 1)
        <3> SUFFICES ASSUME NEW k \in DOMAIN (s \o t)
                     PROVE  \E f \in 1..(n + 1) : \E b \in DOMAIN parts[f].batches :
                               (s \o t)[k] = parts[f].batches[b]
            BY DEF From
        <3>1. CASE k \in 1..Len(s)
            <4>1. PICK f \in 1..n : \E b \in DOMAIN parts[f].batches : s[k] = parts[f].batches[b]
                BY <2>7, <2>10, <3>1 DEF From
            <4>2. f \in 1..(n + 1)
                BY <2>1
            <4>3. (s \o t)[k] = s[k]
                BY <2>10, <3>1
            <4> QED BY <4>1, <4>2, <4>3
        <3>2. CASE k \notin 1..Len(s)
            <4>1. k - Len(s) \in 1..Len(t) /\ Len(s) + (k - Len(s)) = k
                BY <2>10, <3>2
            <4>2. (s \o t)[k] = t[k - Len(s)]
                <5>1. (s \o t)[Len(s) + (k - Len(s))] = t[k - Len(s)]
                    BY <2>10, <4>1
                <5> QED BY <4>1, <5>1
            <4>3. n + 1 \in 1..(n + 1) /\ k - Len(s) \in DOMAIN parts[n + 1].batches
                BY <2>1, <2>6, <2>10, <4>1
            <4> QED BY <2>6, <4>2, <4>3
        <3> QED BY <3>1, <3>2
    <2>12. Has(s \o t, n + 1)
        <3> SUFFICES ASSUME NEW f \in 1..(n + 1), NEW b \in DOMAIN parts[f].batches
                     PROVE  \E k \in DOMAIN (s \o t) : (s \o t)[k] = parts[f].batches[b]
            BY DEF Has
        <3>1. CASE f = n + 1
            <4>1. b \in 1..Len(t) /\ t[b] = parts[f].batches[b]
                BY <2>6, <2>10, <3>1
            <4>2. Len(s) + b \in 1..(Len(s) + Len(t))
                BY <2>10, <4>1
            <4> QED BY <2>10, <4>1, <4>2
        <3>2. CASE f # n + 1
            <4>1. f \in 1..n
                BY <2>1, <3>2
            <4>2. PICK k \in 1..Len(s) : s[k] = parts[f].batches[b]
                BY <2>7, <2>10, <4>1 DEF Has
            <4>3. k \in 1..(Len(s) + Len(t))
                BY <2>10
            <4> QED BY <2>10, <4>2, <4>3
        <3> QED BY <3>1, <3>2
    <2> QED BY <2>4, <2>5, <2>6, <2>9, <2>11, <2>12
<1>5. T \in SUBSET Nat
    OBVIOUS
<1> HIDE DEF T, Good
<1>6. T = Nat
    BY <1>3, <1>4, <1>5, NumberInduction
<1>7. L <= L /\ L \in T
    BY <1>1, <1>6
<1>8. Good(g[L], L)
    BY <1>7 DEF T
<1> QED BY <1>1, <1>8 DEF Good, L

LEMMA AllBatchesFacts ==
    ASSUME fetched \in Seq(Tables)
    PROVE  /\ AllBatches \in Seq(Columns)
           /\ \A k \in DOMAIN AllBatches :
                 \E f \in DOMAIN fetched : \E b \in DOMAIN fetched[f].batches :
                    AllBatches[k] = fetched[f].batches[b]
           /\ \A f \in DOMAIN fetched : \A b \in DOMAIN fetched[f].batches :
                 \E k \in DOMAIN AllBatches : AllBatches[k] = fetched[f].batches[b]
<1> DEFINE upTo[n \in 0..Len(fetched)] ==
               IF n = 0 THEN <<>> ELSE upTo[n - 1] \o fetched[n].batches
<1>1. AllBatches = upTo[Len(fetched)]
    BY DEF AllBatches
<1>2. Len(fetched) \in Nat
    OBVIOUS
<1>3. \E g : IsJoin(g, fetched, Len(fetched))
    BY <1>2, JoinExists
<1>4. upTo = [n \in 0..Len(fetched) |->
                 IF n = 0 THEN <<>> ELSE upTo[n - 1] \o fetched[n].batches]
    BY <1>3 DEF IsJoin
<1> HIDE DEF upTo
<1>5. IsJoin(upTo, fetched, Len(fetched))
    BY <1>4 DEF IsJoin
<1> QED BY <1>1, <1>5, JoinFacts

---------------------------------------------------------------------------
(* The invariant of Decimals *)

LEMMA NotYetFacts == NotYet \in Tables /\ Agrees(NotYet) /\ ~NotYet.ended
<1>1. <<>> \in Seq(Columns) /\ 0 \in Scales
    BY Parameters DEF Scales
<1> QED BY <1>1 DEF NotYet, Tables, Agrees

LEMMA DecimalsInit == Init => DecimalsInv
<1> SUFFICES ASSUME Init PROVE DecimalsInv
    OBVIOUS
<1>1. raw = <<>> /\ fetched = <<>> /\ result = NotYet
    BY DEF Init
<1>2. <<>> \in Seq(Seq(SUBSET Values)) /\ <<>> \in Seq(Tables) /\ 0 <= Fetches
    BY Parameters
<1> QED BY <1>1, <1>2, NotYetFacts DEF DecimalsInv

LEMMA BatchesType == \A batches \in Batches : batches \in Seq(SUBSET Values)
<1> SUFFICES ASSUME NEW batches \in Batches PROVE batches \in Seq(SUBSET Values)
    OBVIOUS
<1>1. PICK n \in 0..MaxBatches : batches \in [1..n -> SUBSET Values]
    BY DEF Batches
<1>2. n \in Nat
    BY Parameters
<1> QED BY <1>1, <1>2

LEMMA RunQueryInv ==
    ASSUME DecimalsInv, NEW batches \in Seq(SUBSET Values), NEW table,
           FetchOK(Reconciled(table.scale, table.batches), batches), RunQuery(batches, table)
    PROVE  DecimalsInv'
<1> DEFINE new == Reconciled(table.scale, table.batches)
<1>1. /\ ~result.ended /\ Len(fetched) < Fetches /\ result' = result
      /\ raw' = Append(raw, batches) /\ fetched' = Append(fetched, new)
    BY DEF RunQuery
<1>2. new \in Tables /\ FetchOK(new, batches)
    BY DEF FetchOK
<1> HIDE DEF new
<1>3. /\ raw \in Seq(Seq(SUBSET Values)) /\ fetched \in Seq(Tables)
      /\ Len(raw) = Len(fetched) /\ \A f \in DOMAIN fetched : FetchOK(fetched[f], raw[f])
    BY DEF DecimalsInv
<1>4. raw' \in Seq(Seq(SUBSET Values)) /\ Len(raw') = Len(raw) + 1
    BY <1>1, <1>3
<1>5. fetched' \in Seq(Tables) /\ Len(fetched') = Len(fetched) + 1
    BY <1>1, <1>2, <1>3
<1>6. Len(fetched') <= Fetches
    BY <1>1, <1>3, <1>5, Parameters
<1>7. ASSUME NEW f \in DOMAIN fetched' PROVE FetchOK(fetched'[f], raw'[f])
    <2>1. CASE f = Len(fetched) + 1
        <3>1. fetched'[f] = new /\ raw'[f] = batches
            BY <1>1, <1>3, <2>1
        <3> QED BY <1>2, <3>1
    <2>2. CASE f # Len(fetched) + 1
        <3>1. f \in DOMAIN fetched /\ f \in 1..Len(raw)
            BY <1>3, <1>5, <1>7, <2>2
        <3>2. fetched'[f] = fetched[f] /\ raw'[f] = raw[f]
            BY <1>1, <1>3, <3>1
        <3> QED BY <1>3, <3>1, <3>2
    <2> QED BY <2>1, <2>2
<1>8. result' \in Tables /\ Agrees(result)' /\ ~result'.ended
    BY <1>1 DEF DecimalsInv
<1> QED BY <1>3, <1>4, <1>5, <1>6, <1>7, <1>8 DEF DecimalsInv

LEMMA ReturnScanInv == ASSUME DecimalsInv, ReturnScan PROVE DecimalsInv'
<1> DEFINE scale == fetched[1].scale
<1>1. /\ raw \in Seq(Seq(SUBSET Values)) /\ fetched \in Seq(Tables)
      /\ Len(raw) = Len(fetched) /\ \A f \in DOMAIN fetched : FetchOK(fetched[f], raw[f])
    BY DEF DecimalsInv
<1>2. /\ Len(fetched) = Fetches /\ Fetches > 0 /\ UNCHANGED <<raw, fetched>>
      /\ result' = Reconciled(scale, AllBatches)
    BY DEF ReturnScan
<1>3. PICK columns : columns = AllBatches
    OBVIOUS
<1>4. /\ columns \in Seq(Columns)
      /\ \A k \in DOMAIN columns :
            \E f \in DOMAIN fetched : \E b \in DOMAIN fetched[f].batches :
               columns[k] = fetched[f].batches[b]
      /\ \A f \in DOMAIN fetched : \A b \in DOMAIN fetched[f].batches :
            \E k \in DOMAIN columns : columns[k] = fetched[f].batches[b]
    BY <1>1, <1>3, AllBatchesFacts
<1>5. 1 \in DOMAIN fetched /\ DOMAIN raw = DOMAIN fetched
    BY <1>1, <1>2, Parameters
<1>6. scale \in Scales
    <2>1. fetched[1] \in Tables
        BY <1>1, <1>5
    <2> QED BY <2>1 DEF Tables
<1>7. result' = Reconciled(scale, columns)
    BY <1>2, <1>3
<1>8. /\ result' \in Tables /\ result'.ended /\ Agrees(result')
      /\ DOMAIN result'.batches = DOMAIN columns
    BY <1>4, <1>6, <1>7, ReconciledType
<1> DEFINE values == ValuesIn(columns)
<1>9. \A k \in DOMAIN columns : DOMAIN columns[k].cells \in SUBSET Values
    BY <1>4, ColumnFacts
<1>10. values \in SUBSET Values
    BY <1>9 DEF ValuesIn
<1>11. values = AllValues
    <2>1. ASSUME NEW v \in values PROVE v \in AllValues
        <3>1. PICK k \in DOMAIN columns : v \in DOMAIN columns[k].cells
            BY DEF ValuesIn
        <3>2. PICK f \in DOMAIN fetched : \E b \in DOMAIN fetched[f].batches :
                  columns[k] = fetched[f].batches[b]
            BY <1>4
        <3>3. PICK b \in DOMAIN fetched[f].batches : columns[k] = fetched[f].batches[b]
            BY <3>2
        <3>4. b \in DOMAIN raw[f] /\ v \in raw[f][b] /\ f \in DOMAIN raw
            BY <1>1, <1>5, <3>1, <3>3 DEF FetchOK
        <3> QED BY <3>4 DEF AllValues
    <2>2. ASSUME NEW v \in AllValues PROVE v \in values
        <3>1. PICK f \in DOMAIN raw : \E b \in DOMAIN raw[f] : v \in raw[f][b]
            BY DEF AllValues
        <3>2. PICK b \in DOMAIN raw[f] : v \in raw[f][b]
            BY <3>1
        <3>3. b \in DOMAIN fetched[f].batches /\ v \in DOMAIN fetched[f].batches[b].cells
            BY <1>1, <1>5, <3>2 DEF FetchOK
        <3>4. PICK k \in DOMAIN columns : columns[k] = fetched[f].batches[b]
            BY <1>4, <1>5, <3>3
        <3> QED BY <3>3, <3>4 DEF ValuesIn
    <2> QED BY <2>1, <2>2
<1>12. ASSUME NEW f \in DOMAIN fetched
       PROVE  ValuesIn(fetched[f].batches) \in SUBSET values
    <2> SUFFICES ASSUME NEW b \in DOMAIN fetched[f].batches
                 PROVE  DOMAIN fetched[f].batches[b].cells \subseteq values
        BY DEF ValuesIn
    <2>1. PICK k \in DOMAIN columns : columns[k] = fetched[f].batches[b]
        BY <1>4
    <2> QED BY <2>1 DEF ValuesIn
<1> HIDE DEF values
<1>13. ASSUME FitOneType(values), NEW f \in DOMAIN fetched
       PROVE  /\ fetched[f].scale <= Width(values)
              /\ \A b \in DOMAIN fetched[f].batches :
                    /\ fetched[f].batches[b].scale = fetched[f].scale
                    /\ \A v \in DOMAIN fetched[f].batches[b].cells :
                          /\ v.frac <= fetched[f].scale
                          /\ fetched[f].batches[b].cells[v] = "exact"
    <2> DEFINE part == ValuesIn(fetched[f].batches)
    <2>1. /\ Agrees(fetched[f])
          /\ FitOneType(part) => fetched[f].scale = Width(part) /\ AllExact(fetched[f].batches)
        BY <1>1 DEF FetchOK, Exactly
    <2>2. \A b \in DOMAIN fetched[f].batches :
              \A v \in DOMAIN fetched[f].batches[b].cells : v \in part
        BY DEF ValuesIn
    <2>3. part \in SUBSET values
        BY <1>12
    <2> HIDE DEF part
    <2>4. FitOneType(part) /\ Width(part) <= Width(values)
        BY <1>10, <1>13, <2>3, FitFewer
    <2>5. \A v \in part : v.frac <= Width(part)
        BY <1>10, <2>3, <2>4, FitFacts
    <2>6. fetched[f].scale = Width(part) /\ AllExact(fetched[f].batches)
        BY <2>1, <2>4
    <2> QED BY <2>1, <2>2, <2>4, <2>5, <2>6 DEF Agrees, AllExact
<1>14. ASSUME FitOneType(values)
       PROVE  result'.scale = Width(values) /\ AllExact(result'.batches)
    <2>1. scale <= Width(values)
        BY <1>5, <1>13, <1>14
    <2>2. ASSUME NEW k \in DOMAIN columns
          PROVE  /\ columns[k].scale <= Width(values)
                 /\ \A v \in DOMAIN columns[k].cells :
                       v.frac <= columns[k].scale /\ columns[k].cells[v] = "exact"
        <3>1. PICK f \in DOMAIN fetched : \E b \in DOMAIN fetched[f].batches :
                  columns[k] = fetched[f].batches[b]
            BY <1>4
        <3>2. PICK b \in DOMAIN fetched[f].batches : columns[k] = fetched[f].batches[b]
            BY <3>1
        <3>3. /\ columns[k].scale = fetched[f].scale /\ fetched[f].scale <= Width(values)
              /\ \A v \in DOMAIN columns[k].cells :
                    v.frac <= fetched[f].scale /\ columns[k].cells[v] = "exact"
            BY <1>13, <1>14, <3>2
        <3> QED BY <3>3
    <2>3. AllExact(columns)
        BY <2>2 DEF AllExact
    <2>4. values = ValuesIn(columns)
        BY DEF values
    <2> HIDE DEF scale
    <2> QED BY <1>4, <1>6, <1>7, <1>10, <1>14, <2>1, <2>2, <2>3, <2>4, ReconciledExact
<1>15. Exactly(result', values)
    BY <1>14 DEF Exactly
<1>16. AllValues' = values
    BY <1>2, <1>11 DEF AllValues
<1> QED BY <1>1, <1>2, <1>8, <1>15, <1>16 DEF DecimalsInv

LEMMA DecimalsStep == ASSUME DecimalsInv, Next PROVE DecimalsInv'
<1>1. CASE Fetch
    <2>1. PICK batches \in Batches : RunQuery(batches, Normalized(batches))
        BY <1>1 DEF Fetch
    <2>2. batches \in Seq(SUBSET Values)
        BY BatchesType
    <2> QED BY <2>1, <2>2, NormalizedFetch, RunQueryInv
<1>2. CASE FetchUnmarked
    <2>1. PICK batches \in Batches : RunQuery(batches, Unmarked(batches))
        BY <1>2 DEF FetchUnmarked
    <2>2. batches \in Seq(SUBSET Values)
        BY BatchesType
    <2> QED BY <2>1, <2>2, UnmarkedFetch, RunQueryInv
<1>3. CASE ReturnScan
    BY <1>3, ReturnScanInv
<1> QED BY <1>1, <1>2, <1>3 DEF Next

---------------------------------------------------------------------------
(* The invariant of RelationSchemas *)

BatchType == [type : 0..MaxScale, nullable : BOOLEAN, nulls : BOOLEAN, computed : 0..MaxScale]
Bindings  == [declared : Fields, batches : Seq(BatchType), onDisk : BOOLEAN, honest : BOOLEAN]

Conforms(r) == \A i \in DOMAIN r.batches : Contains(r.declared, r.batches[i])

RelInv ==
    /\ rel = None \/ rel \in Bindings
    /\ rel.honest => Conforms(rel) /\ AsComputed(rel)
    /\ failed \in {"", "mismatch", "renaming"} /\ exported \in BOOLEAN

SchemaInv == DecimalsInv /\ RelInv

(* A relation of no batch yet.                                             *)
LEMMA NoneFacts ==
    /\ None.batches = <<>> /\ DOMAIN None.batches = {}
    /\ None.onDisk = FALSE /\ None.honest = TRUE
<1>1. None.batches = <<>> /\ None.onDisk = FALSE /\ None.honest = TRUE
    BY DEF None, Relation
<1> QED BY <1>1

LEMMA RelationFacts ==
    ASSUME NEW field \in Fields, NEW batches \in Seq(BatchType), NEW honest \in BOOLEAN
    PROVE  /\ Relation(field, batches, honest) \in Bindings
           /\ Relation(field, batches, honest).declared = field
           /\ Relation(field, batches, honest).batches = batches
           /\ Relation(field, batches, honest).honest = honest
BY DEF Relation, Bindings

(* Batches under another field keep what they were computed in.            *)
LEMMA ReschemaFacts ==
    ASSUME NEW field \in Fields, NEW batches \in Seq(BatchType)
    PROVE  /\ Reschema(field, batches) \in Seq(BatchType)
           /\ DOMAIN Reschema(field, batches) = DOMAIN batches
           /\ \A i \in DOMAIN batches :
                 /\ Contains(field, Reschema(field, batches)[i])
                 /\ Reschema(field, batches)[i].computed = batches[i].computed
<1> DEFINE new == Reschema(field, batches)
<1>1. ASSUME NEW i \in DOMAIN batches
      PROVE  /\ Relabelled(field, batches[i]) \in BatchType
             /\ Contains(field, Relabelled(field, batches[i]))
             /\ Relabelled(field, batches[i]).computed = batches[i].computed
    <2>1. PICK b \in BatchType : b = batches[i]
        OBVIOUS
    <2>2. field.type \in 0..MaxScale /\ field.nullable \in BOOLEAN
        BY DEF Fields
    <2>3. Relabelled(field, b) = [b EXCEPT !.type = field.type, !.nullable = field.nullable]
        BY DEF Relabelled
    <2>4. Relabelled(field, b) \in BatchType
        BY <2>2, <2>3 DEF BatchType
    <2>5. /\ Relabelled(field, b).type = field.type
          /\ Relabelled(field, b).nullable = field.nullable
          /\ Relabelled(field, b).computed = b.computed
        BY <2>3 DEF BatchType
    <2>6. Contains(field, Relabelled(field, b))
        BY <2>5 DEF Contains
    <2> QED BY <2>1, <2>4, <2>5, <2>6
<1>2. new = [i \in DOMAIN batches |-> Relabelled(field, batches[i])]
    BY DEF Reschema
<1> HIDE DEF new
<1>3. new \in [1..Len(batches) -> BatchType] /\ Len(batches) \in Nat
      /\ DOMAIN batches = 1..Len(batches)
    BY <1>1, <1>2
<1>4. new \in Seq(BatchType) /\ DOMAIN new = DOMAIN batches
    BY <1>3, Indexed
<1>5. \A i \in DOMAIN batches : new[i] = Relabelled(field, batches[i])
    BY <1>2
<1> QED BY <1>1, <1>4, <1>5 DEF new

(* What DataFusion executes: batches of one type, the one their values     *)
(* were computed in.                                                       *)
LEMMA ExecutionFacts ==
    ASSUME NEW e \in Executions
    PROVE  /\ e.logical \in Fields /\ e.batches \in Seq(BatchType)
           /\ \A i \in DOMAIN e.batches : /\ e.batches[i].computed = e.batches[i].type
                                          /\ e.batches[i].type = e.batches[1].type
<1>1. /\ e.logical \in Fields
      /\ e.batches \in UNION {SeqsUpTo(BatchesOf(t), MaxBatches) : t \in 0..MaxScale}
    BY DEF Executions
<1>2. PICK t \in 0..MaxScale : e.batches \in SeqsUpTo(BatchesOf(t), MaxBatches)
    BY <1>1
<1>3. PICK n \in 0..MaxBatches : e.batches \in [1..n -> BatchesOf(t)]
    BY <1>2 DEF SeqsUpTo
<1>4. \A b \in BatchesOf(t) : b \in BatchType /\ b.type = t /\ b.computed = t
    BY DEF BatchesOf, BatchType
<1>5. n \in Nat /\ e.batches \in [1..n -> BatchType] /\ DOMAIN e.batches = 1..n
    BY <1>3, <1>4, Parameters
<1>6. \A i \in 1..n : e.batches[i].type = t /\ e.batches[i].computed = t /\ 1 \in 1..n
    BY <1>3, <1>4, <1>5
<1> QED BY <1>1, <1>5, <1>6

(* What collect_batches makes conforms, and is as it was computed when the *)
(* batches were of one type and as computed.                               *)
LEMMA CollectedFacts ==
    ASSUME NEW e, e.logical \in Fields, e.batches \in Seq(BatchType), NEW honest \in BOOLEAN
    PROVE  /\ Collected(e, honest) \in Bindings /\ Collected(e, honest).honest = honest
           /\ Conforms(Collected(e, honest))
           /\ (\A i \in DOMAIN e.batches : e.batches[i].computed = e.batches[1].type)
                 => AsComputed(Collected(e, honest))
<1> DEFINE schema == IF e.batches = <<>> THEN e.logical
                     ELSE [type |-> e.batches[1].type, nullable |-> TRUE]
           new == Reschema(schema, e.batches)
<1>1. schema \in Fields
    <2>1. CASE e.batches = <<>>
        BY <2>1
    <2>2. CASE e.batches # <<>>
        <3>1. e.batches[1] \in BatchType
            BY <2>2
        <3> QED BY <2>2, <3>1 DEF Fields, BatchType
    <2> QED BY <2>1, <2>2
<1>2. Collected(e, honest) = Relation(schema, new, honest)
    BY DEF Collected
<1>3. \A i \in DOMAIN e.batches : schema.type = e.batches[1].type
    OBVIOUS
<1> HIDE DEF schema
<1>4. /\ new \in Seq(BatchType) /\ DOMAIN new = DOMAIN e.batches
      /\ \A i \in DOMAIN e.batches : /\ Contains(schema, new[i])
                                     /\ new[i].computed = e.batches[i].computed
    BY <1>1, ReschemaFacts
<1> HIDE DEF new
<1>5. PICK r : r = Collected(e, honest)
    OBVIOUS
<1>6. r \in Bindings /\ r.declared = schema /\ r.batches = new /\ r.honest = honest
    BY <1>1, <1>2, <1>4, <1>5, RelationFacts
<1>7. Conforms(r)
    BY <1>4, <1>6 DEF Conforms
<1>8. (\A i \in DOMAIN e.batches : e.batches[i].computed = e.batches[1].type) => AsComputed(r)
    BY <1>3, <1>4, <1>6 DEF AsComputed
<1> QED BY <1>5, <1>6, <1>7, <1>8

LEMMA DecimalsKept ==
    ASSUME DecimalsInv, UNCHANGED <<raw, fetched, result>>
    PROVE  DecimalsInv'
<1>1. raw' = raw /\ fetched' = fetched /\ result' = result
    OBVIOUS
<1>2. AllValues' = AllValues
    BY <1>1 DEF AllValues
<1>3. (\A f \in DOMAIN fetched : FetchOK(fetched[f], raw[f]))'
    BY <1>1 DEF DecimalsInv
<1>4. (result.ended => Exactly(result, AllValues))'
    BY <1>1, <1>2 DEF DecimalsInv
<1>5. Agrees(result)'
    BY <1>1 DEF DecimalsInv
<1> QED BY <1>1, <1>3, <1>4, <1>5 DEF DecimalsInv

(* A binding that takes the place of rel.                                  *)
LEMMA NewBinding ==
    ASSUME SchemaInv, UNCHANGED <<raw, fetched, result, failed, exported>>,
           NEW r \in Bindings, rel' = r, r.honest => Conforms(r) /\ AsComputed(r)
    PROVE  SchemaInv'
<1>1. DecimalsInv'
    BY DecimalsKept DEF SchemaInv
<1>2. RelInv'
    BY DEF SchemaInv, RelInv
<1> QED BY <1>1, <1>2 DEF SchemaInv

LEMMA KeepInv ==
    ASSUME SchemaInv, UNCHANGED <<raw, fetched, result, rel>>,
           failed' \in {"", "mismatch", "renaming"}, exported' \in BOOLEAN
    PROVE  SchemaInv'
<1>1. DecimalsInv'
    BY DecimalsKept DEF SchemaInv
<1>2. RelInv'
    BY DEF SchemaInv, RelInv
<1> QED BY <1>1, <1>2 DEF SchemaInv

LEMMA FromPostgresInv == ASSUME SchemaInv, FromPostgres PROVE SchemaInv'
<1> DEFINE field == [type |-> result.scale, nullable |-> TRUE]
           of(column) == [type |-> column.scale, nullable |-> TRUE, computed |-> column.scale,
                          nulls |-> \E v \in DOMAIN column.cells : column.cells[v] = "null"]
           batches == [i \in DOMAIN result.batches |-> of(result.batches[i])]
<1>1. /\ rel' = Relation(field, batches, TRUE)
      /\ raw' = <<>> /\ fetched' = <<>> /\ result' = NotYet /\ UNCHANGED <<failed, exported>>
    BY DEF FromPostgres
<1>2. result \in Tables /\ Agrees(result)
    BY DEF SchemaInv, DecimalsInv
<1>3. field \in Fields
    BY <1>2 DEF Fields, Tables, Scales
<1>4. ASSUME NEW column \in Columns
      PROVE  /\ of(column) \in BatchType
             /\ of(column).type = column.scale /\ of(column).computed = column.scale
             /\ of(column).nullable = TRUE
    <2>1. column.scale \in 0..MaxScale
        BY ColumnFacts
    <2>2. (\E v \in DOMAIN column.cells : column.cells[v] = "null") \in BOOLEAN
        OBVIOUS
    <2>3. PICK nulls \in BOOLEAN :
              nulls = (\E v \in DOMAIN column.cells : column.cells[v] = "null")
        BY <2>2
    <2>4. of(column) = [type |-> column.scale, nullable |-> TRUE, computed |-> column.scale,
                        nulls |-> nulls]
        BY <2>3
    <2> HIDE DEF of
    <2> QED BY <2>1, <2>4 DEF BatchType
<1> HIDE DEF of
<1>0. result.batches \in Seq(Columns)
    BY <1>2 DEF Tables
<1>5. /\ \A i \in DOMAIN result.batches : result.batches[i] \in Columns
      /\ DOMAIN result.batches = 1..Len(result.batches) /\ Len(result.batches) \in Nat
    BY <1>0
<1>6. batches \in [1..Len(result.batches) -> BatchType] /\ Len(result.batches) \in Nat
    BY <1>4, <1>5
<1>7. \A i \in DOMAIN batches : /\ i \in DOMAIN result.batches
                                /\ batches[i] = of(result.batches[i])
    OBVIOUS
<1> HIDE DEF batches
<1>8. batches \in Seq(BatchType)
    BY <1>6, Indexed
<1>9. \A i \in DOMAIN batches : batches[i].type = result.scale
                                /\ batches[i].computed = result.scale
    <2> SUFFICES ASSUME NEW i \in DOMAIN batches
                 PROVE  batches[i].type = result.scale /\ batches[i].computed = result.scale
        OBVIOUS
    <2>1. i \in DOMAIN result.batches /\ batches[i] = of(result.batches[i])
        BY <1>7
    <2>2. result.batches[i].scale = result.scale
        BY <1>2, <2>1 DEF Agrees
    <2> QED BY <1>4, <1>5, <2>1, <2>2
<1>10. PICK r \in Bindings : r = Relation(field, batches, TRUE)
    BY <1>3, <1>8, RelationFacts
<1>11. r.declared = field /\ r.batches = batches /\ r.honest = TRUE
    BY <1>3, <1>8, <1>10, RelationFacts
<1>12. Conforms(r) /\ AsComputed(r)
    BY <1>9, <1>11 DEF Conforms, AsComputed, Contains
<1>13. RelInv'
    BY <1>1, <1>10, <1>12 DEF SchemaInv, RelInv
<1>14. DecimalsInv'
    <2>1. <<>> \in Seq(Seq(SUBSET Values)) /\ <<>> \in Seq(Tables) /\ 0 <= Fetches
        BY Parameters
    <2> QED BY <1>1, <2>1, NotYetFacts DEF DecimalsInv
<1> QED BY <1>13, <1>14 DEF SchemaInv

LEMMA FromDuckDbInv == ASSUME SchemaInv, FromDuckDb PROVE SchemaInv'
<1>1. PICK field \in Fields : \E bs \in SeqsUpTo(BatchesOf(field.type), MaxBatches) :
          rel' = Relation(field, [i \in DOMAIN bs |->
                     [bs[i] EXCEPT !.nullable = field.nullable, !.nulls = @ /\ field.nullable]], TRUE)
    BY DEF FromDuckDb
<1>2. PICK bs \in SeqsUpTo(BatchesOf(field.type), MaxBatches) :
          rel' = Relation(field, [i \in DOMAIN bs |->
                     [bs[i] EXCEPT !.nullable = field.nullable, !.nulls = @ /\ field.nullable]], TRUE)
    BY <1>1
<1>3. UNCHANGED <<raw, fetched, result, failed, exported>>
    BY DEF FromDuckDb
<1>4. PICK n \in 0..MaxBatches : bs \in [1..n -> BatchesOf(field.type)]
    BY DEF SeqsUpTo
<1>5. n \in Nat /\ field.type \in 0..MaxScale /\ field.nullable \in BOOLEAN
    BY Parameters DEF Fields
<1> DEFINE of(b) == [b EXCEPT !.nullable = field.nullable, !.nulls = @ /\ field.nullable]
           batches == [i \in DOMAIN bs |-> of(bs[i])]
<1>6. ASSUME NEW b \in BatchesOf(field.type)
      PROVE  /\ of(b) \in BatchType /\ of(b).type = field.type
             /\ of(b).computed = field.type /\ of(b).nullable = field.nullable
    <2>1. /\ b \in [type : {field.type}, nullable : BOOLEAN, nulls : BOOLEAN,
                    computed : {field.type}]
        BY DEF BatchesOf
    <2>2. PICK nulls \in BOOLEAN : nulls = (b.nulls /\ field.nullable)
        BY <1>5, <2>1
    <2>3. of(b) = [b EXCEPT !.nullable = field.nullable, !.nulls = nulls]
        BY <2>2
    <2> HIDE DEF of
    <2> QED BY <1>5, <2>1, <2>3 DEF BatchType
<1>7. rel' = Relation(field, batches, TRUE)
    BY <1>2
<1> HIDE DEF of
<1>8. /\ batches \in [1..n -> BatchType]
      /\ \A i \in DOMAIN batches : /\ batches[i].type = field.type
                                   /\ batches[i].computed = field.type
                                   /\ batches[i].nullable = field.nullable
    BY <1>4, <1>6
<1> HIDE DEF batches
<1>9. batches \in Seq(BatchType)
    BY <1>5, <1>8, Indexed
<1>10. PICK r \in Bindings : r = Relation(field, batches, TRUE)
    BY <1>9, RelationFacts
<1>11. r.declared = field /\ r.batches = batches
    BY <1>9, <1>10, RelationFacts
<1>12. Conforms(r) /\ AsComputed(r)
    BY <1>8, <1>11 DEF Conforms, AsComputed, Contains
<1> QED BY <1>3, <1>7, <1>10, <1>12, NewBinding

LEMMA FromParquetInv == ASSUME SchemaInv, FromParquet PROVE SchemaInv'
<1>1. PICK e \in Executions : rel' = Relation(e.logical, e.batches, FALSE)
    BY DEF FromParquet
<1>2. UNCHANGED <<raw, fetched, result, failed, exported>>
    BY DEF FromParquet
<1>3. e.logical \in Fields /\ e.batches \in Seq(BatchType)
    BY ExecutionFacts
<1>4. PICK r \in Bindings : r = Relation(e.logical, e.batches, FALSE)
    BY <1>3, RelationFacts
<1>5. ~r.honest
    BY <1>3, <1>4, RelationFacts
<1> QED BY <1>1, <1>2, <1>4, <1>5, NewBinding

LEMMA RunningFacts ==
    ASSUME SchemaInv, Running
    PROVE  /\ rel \in Bindings /\ rel.declared \in Fields /\ rel.batches \in Seq(BatchType)
           /\ rel.honest \in BOOLEAN /\ rel.honest => Conforms(rel) /\ AsComputed(rel)
           /\ Honest \in BOOLEAN
           /\ Honest => AsComputed(rel)
<1>1. rel \in Bindings /\ rel.honest => Conforms(rel) /\ AsComputed(rel)
    BY DEF SchemaInv, RelInv, Running
<1>2. rel \in Bindings
    BY DEF SchemaInv, RelInv, Running
<1>3. AsComputed(rel) \in BOOLEAN
    BY DEF AsComputed
<1>4. rel.declared \in Fields /\ rel.batches \in Seq(BatchType) /\ rel.honest \in BOOLEAN
    BY <1>2 DEF Bindings
<1>5. Honest \in BOOLEAN
    BY DEF Honest
<1>6. rel.honest => Conforms(rel) /\ AsComputed(rel)
    BY DEF SchemaInv, RelInv
<1>7. Honest => AsComputed(rel)
    BY <1>6 DEF Honest
<1> QED BY <1>2, <1>4, <1>5, <1>6, <1>7

LEMMA SpillInv == ASSUME SchemaInv, Spill PROVE SchemaInv'
<1>1. /\ Running /\ rel' = Written(rel)
      /\ UNCHANGED <<raw, fetched, result, failed, exported>>
    BY DEF Spill, Replaces
<1>2. /\ rel \in Bindings /\ rel.declared \in Fields /\ rel.batches \in Seq(BatchType)
      /\ rel.honest => Conforms(rel) /\ AsComputed(rel)
    BY <1>1, RunningFacts
<1>3. PICK new : new = Reschema(rel.declared, rel.batches)
    OBVIOUS
<1>4. /\ new \in Seq(BatchType) /\ DOMAIN new = DOMAIN rel.batches
      /\ \A i \in DOMAIN rel.batches : /\ Contains(rel.declared, new[i])
                                       /\ new[i].computed = rel.batches[i].computed
    BY <1>2, <1>3, ReschemaFacts
<1>5. Written(rel) = [rel EXCEPT !.batches = new, !.onDisk = TRUE]
    BY <1>3 DEF Written
<1>6. PICK r : r = Written(rel)
    OBVIOUS
<1>7. /\ r \in Bindings /\ r.declared = rel.declared /\ r.batches = new
      /\ r.honest = rel.honest
    BY <1>2, <1>4, <1>5, <1>6 DEF Bindings
<1>8. r.honest => Conforms(r) /\ AsComputed(r)
    BY <1>2, <1>4, <1>7 DEF Conforms, AsComputed
<1> QED BY <1>1, <1>6, <1>7, <1>8, NewBinding

LEMMA MergeInv == ASSUME SchemaInv, Merge PROVE SchemaInv'
<1>1. PICK e \in Executions : rel' = Collected(e, Honest)
                              /\ UNCHANGED <<raw, fetched, result, failed, exported>>
    BY DEF Merge, Replaces
<1>2. PICK honest \in BOOLEAN : honest = Honest
    BY RunningFacts DEF Merge
<1>3. /\ e.logical \in Fields /\ e.batches \in Seq(BatchType)
      /\ \A i \in DOMAIN e.batches : e.batches[i].computed = e.batches[1].type
    BY ExecutionFacts
<1>4. PICK r : r = Collected(e, honest)
    OBVIOUS
<1>5. r \in Bindings /\ Conforms(r) /\ AsComputed(r)
    BY <1>3, <1>4, CollectedFacts
<1> QED BY <1>1, <1>2, <1>4, <1>5, NewBinding

(* A relation that registers has batches of its declared type.             *)
LEMMA GuardInv == ASSUME SchemaInv, SingleRowGuard PROVE SchemaInv'
<1> DEFINE e == [logical |-> rel.declared, batches |-> rel.batches]
<1>1. /\ Running /\ Registers(rel) /\ rel' = Collected(e, Honest)
      /\ UNCHANGED <<raw, fetched, result, failed, exported>>
    BY DEF SingleRowGuard, Replaces
<1>2. /\ rel.declared \in Fields /\ rel.batches \in Seq(BatchType) /\ Honest \in BOOLEAN
      /\ Honest => AsComputed(rel)
    BY <1>1, RunningFacts
<1>3. PICK honest \in BOOLEAN : honest = Honest
    BY <1>2
<1>4. \A i \in DOMAIN rel.batches : rel.declared.type = rel.batches[i].type
    BY <1>1 DEF Registers, Fits, Contains
<1>5. honest => \A i \in DOMAIN rel.batches : rel.batches[i].computed = rel.batches[1].type
    <2>1. SUFFICES ASSUME honest, NEW i \in DOMAIN rel.batches
                   PROVE  rel.batches[i].computed = rel.batches[1].type
        OBVIOUS
    <2>2. 1 \in DOMAIN rel.batches
        BY <1>2, <2>1
    <2>3. rel.batches[i].computed = rel.declared.type
        BY <1>2, <1>3, <2>1 DEF AsComputed
    <2> QED BY <1>4, <2>2, <2>3
<1>6. e.logical = rel.declared /\ e.batches = rel.batches
    OBVIOUS
<1> HIDE DEF e
<1>7. e.logical \in Fields /\ e.batches \in Seq(BatchType)
    BY <1>2, <1>6
<1>8. honest => \A i \in DOMAIN e.batches : e.batches[i].computed = e.batches[1].type
    BY <1>5, <1>6
<1>9. PICK r : r = Collected(e, honest)
    OBVIOUS
<1>10. r \in Bindings /\ r.honest = honest /\ Conforms(r)
    BY <1>7, <1>9, CollectedFacts
<1>11. honest => AsComputed(r)
    BY <1>7, <1>8, <1>9, CollectedFacts
<1> QED BY <1>1, <1>3, <1>9, <1>10, <1>11, NewBinding

LEMMA DuplicateNamesInv == ASSUME SchemaInv, MergeDuplicateNames PROVE SchemaInv'
<1>1. PICK e \in Executions :
          IF \A i \in DOMAIN e.batches : Fits(e.logical, e.batches[i])
          THEN Replaces(Relation(e.logical, Reschema(e.logical, e.batches), Honest))
          ELSE Fails("renaming")
    BY DEF MergeDuplicateNames
<1>2. /\ e.logical \in Fields /\ e.batches \in Seq(BatchType)
      /\ \A i \in DOMAIN e.batches : e.batches[i].computed = e.batches[i].type
    BY ExecutionFacts
<1>3. CASE Fails("renaming")
    BY <1>3, KeepInv DEF Fails, SchemaInv, RelInv
<1>4. CASE /\ \A i \in DOMAIN e.batches : Fits(e.logical, e.batches[i])
           /\ Replaces(Relation(e.logical, Reschema(e.logical, e.batches), Honest))
    <2>1. PICK honest \in BOOLEAN : honest = Honest
        BY RunningFacts DEF MergeDuplicateNames
    <2>2. PICK new : new = Reschema(e.logical, e.batches)
        OBVIOUS
    <2>3. /\ new \in Seq(BatchType) /\ DOMAIN new = DOMAIN e.batches
          /\ \A i \in DOMAIN e.batches : /\ Contains(e.logical, new[i])
                                         /\ new[i].computed = e.batches[i].computed
        BY <1>2, <2>2, ReschemaFacts
    <2>4. PICK r : r = Relation(e.logical, new, honest)
        OBVIOUS
    <2>5. r \in Bindings /\ r.declared = e.logical /\ r.batches = new
        BY <1>2, <2>3, <2>4, RelationFacts
    <2>6. \A i \in DOMAIN e.batches : e.batches[i].computed = e.logical.type
        BY <1>2, <1>4 DEF Fits
    <2>7. Conforms(r) /\ AsComputed(r)
        BY <2>3, <2>5, <2>6 DEF Conforms, AsComputed
    <2>8. rel' = r /\ UNCHANGED <<raw, fetched, result, failed, exported>>
        BY <1>4, <2>1, <2>2, <2>4 DEF Replaces
    <2> QED BY <2>5, <2>7, <2>8, NewBinding
<1> QED BY <1>1, <1>3, <1>4

LEMMA SchemaInvInit == SchemaInit => SchemaInv
<1> SUFFICES ASSUME SchemaInit PROVE SchemaInv
    OBVIOUS
<1>1. DecimalsInv
    BY DecimalsInit DEF SchemaInit
<1>2. RelInv
    <2>1. Conforms(None) /\ AsComputed(None)
        BY NoneFacts DEF Conforms, AsComputed
    <2> QED BY <2>1 DEF SchemaInit, RelInv
<1> QED BY <1>1, <1>2 DEF SchemaInv

LEMMA SchemaInvStep == SchemaInv /\ [SchemaNext]_schemaVars => SchemaInv'
<1> SUFFICES ASSUME SchemaInv, [SchemaNext]_schemaVars PROVE SchemaInv'
    OBVIOUS
<1>1. CASE UNCHANGED schemaVars
    BY <1>1, KeepInv DEF schemaVars, SchemaInv, RelInv
<1>2. CASE FetchStep
    <2>1. DecimalsInv'
        BY <1>2, DecimalsStep DEF FetchStep, SchemaInv
    <2>2. RelInv'
        BY <1>2 DEF FetchStep, relVars, SchemaInv, RelInv
    <2> QED BY <2>1, <2>2 DEF SchemaInv
<1>3. CASE RegisterFails
    BY <1>3, KeepInv DEF RegisterFails, Fails, SchemaInv, RelInv
<1>4. CASE Return
    BY <1>4, KeepInv DEF Return, SchemaInv, RelInv
<1> QED BY <1>1, <1>2, <1>3, <1>4, FromPostgresInv, FromDuckDbInv, FromParquetInv, SpillInv,
           MergeInv, GuardInv, DuplicateNamesInv DEF SchemaNext

LEMMA Invariance == SchemaSpec => []SchemaInv
BY SchemaInvInit, SchemaInvStep, PTL DEF SchemaSpec

---------------------------------------------------------------------------
(* Theorems *)

(* Every table, binding and batch is well typed: a derived scale never     *)
(* leaves Decimal128's range.                                              *)
THEOREM SchemasTypeCorrect == SchemaSpec => []SchemaTypeOK
<1>1. ASSUME NEW table \in Tables PROVE TableOK(table)
    <2>1. table.scale \in Scales /\ table.ended \in BOOLEAN /\ table.batches \in Seq(Columns)
        BY DEF Tables
    <2>2. ASSUME NEW b \in DOMAIN table.batches PROVE ColumnOK(table.batches[b])
        <3>1. table.batches[b] \in Columns
            BY <2>1
        <3> QED BY <3>1, ColumnFacts DEF ColumnOK, Cells
    <2> QED BY <2>1, <2>2 DEF TableOK
<1>2. SchemaInv => TypeOK
    <2> SUFFICES ASSUME SchemaInv PROVE TypeOK
        OBVIOUS
    <2>1. fetched \in Seq(Tables) /\ result \in Tables
          /\ Len(raw) = Len(fetched) /\ Len(fetched) <= Fetches
        BY DEF SchemaInv, DecimalsInv
    <2>2. \A f \in DOMAIN fetched : fetched[f] \in Tables
        BY <2>1
    <2> QED BY <1>1, <2>1, <2>2 DEF TypeOK
<1>3. SchemaInv => SchemaTypeOK
    <2> SUFFICES ASSUME SchemaInv PROVE SchemaTypeOK
        OBVIOUS
    <2>1. failed \in {"", "mismatch", "renaming"} /\ exported \in BOOLEAN
        BY DEF SchemaInv, RelInv
    <2>2. CASE rel = None
        <3>1. \A i \in DOMAIN rel.batches : FALSE
            BY <2>2, NoneFacts
        <3>2. rel.onDisk = FALSE /\ rel.honest = TRUE
            BY <2>2, NoneFacts
        <3> QED BY <1>2, <2>1, <2>2, <3>1, <3>2 DEF SchemaTypeOK
    <2>3. CASE rel \in Bindings
        <3>1. /\ rel.declared \in Fields /\ rel.batches \in Seq(BatchType)
              /\ rel.onDisk \in BOOLEAN /\ rel.honest \in BOOLEAN
            BY <2>3 DEF Bindings
        <3>2. \A i \in DOMAIN rel.batches : rel.batches[i] \in BatchType
            BY <3>1
        <3> QED BY <1>2, <2>1, <3>1, <3>2 DEF SchemaTypeOK, BatchType
    <2> QED BY <2>2, <2>3 DEF SchemaInv, RelInv
<1> QED BY <1>3, Invariance, PTL

(* A table's schema agrees with every batch in it, whichever partitions    *)
(* were empty, integral or wide.                                           *)
THEOREM SchemasAgree == SchemaSpec => []SchemaAgreesWithBatches
<1>1. SchemaInv => SchemaAgreesWithBatches
    BY DEF SchemaInv, DecimalsInv, SchemaAgreesWithBatches, FetchOK
<1> QED BY <1>1, Invariance, PTL

(* A column that one type can hold comes back exactly and in that type,    *)
(* however the pages were dealt to partitions and these sent in batches.   *)
THEOREM PartitioningStaysHidden == SchemaSpec => []PartitioningDoesNotShow
<1>1. FitTogether => FitOneType(AllValues)
    BY DEF FitTogether, FitOneType, Widest, Width, Digits
<1>2. Width(AllValues) = Widest
    BY DEF Width, Digits, Widest
<1>3. SchemaInv => PartitioningDoesNotShow
    BY <1>1, <1>2 DEF SchemaInv, DecimalsInv, Exactly, AllExact, PartitioningDoesNotShow
<1> QED BY <1>3, Invariance, PTL

(* A relation that no Parquet fetch's schema got into conforms to the      *)
(* schema it declares: the next MemTable does not refuse it.               *)
THEOREM HonestRelationsConform == SchemaSpec => []RelationsConform
<1>1. SchemaInv => RelationsConform
    BY DEF SchemaInv, RelInv, Conforms, RelationsConform
<1> QED BY <1>1, Invariance, PTL

(* And its values are read in the type they were computed in, however      *)
(* often it went through a file.                                           *)
THEOREM FilesAreReadAsComputed == SchemaSpec => []ReadAsComputed
<1>1. SchemaInv => ReadAsComputed
    BY DEF SchemaInv, RelInv, ReadAsComputed
<1> QED BY <1>1, Invariance, PTL

=============================================================================
