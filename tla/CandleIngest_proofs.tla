---- MODULE CandleIngest_proofs ----
(***************************************************************************)
(* What the ingest of candles keeps true, for every set of requests,       *)
(* vendors and limits, every number of retries, ticks and mishaps, and     *)
(* every interleaving of the awaits.                                       *)
(***************************************************************************)
EXTENDS CandleIngest, FiniteSetTheorems, SequenceTheorems, WellFoundedInduction, TLAPS

----------------------------------------------------------------------------
\* Numbers in order, and bars.

\* A set of natural numbers has a least one.
LEMMA LeastOf ==
  ASSUME NEW S, S \subseteq Nat, S # {}
  PROVE  Min(S) \in S /\ \A n \in S : Min(S) <= n
<1>1. PICK m \in S : \A n \in S : ~ (<<n, m>> \in OpToRel(<, Nat))
  BY NatLessThanWellFounded, WFMin
<1>2. ASSUME NEW n \in S PROVE m <= n
  <2> SUFFICES ASSUME n < m PROVE FALSE
    OBVIOUS
  <2>1. <<n, m>> \in OpToRel(<, Nat)
    BY DEF OpToRel
  <2>. QED BY <1>1, <2>1
<1>. QED BY <1>2 DEF Min

\* One that is bounded has a greatest.
LEMMA GreatestOf ==
  ASSUME NEW S, NEW b \in Nat, S \subseteq 0 .. b, S # {}
  PROVE  Max(S) \in S /\ \A n \in S : n <= Max(S)
<1> DEFINE T == {n \in Nat : b - n \in S}
<1>1. T # {}
  <2>1. PICK n \in S : TRUE
    OBVIOUS
  <2>2. b - (b - n) = n /\ b - n \in Nat
    BY <2>1
  <2>. QED BY <2>2
<1>2. Min(T) \in T /\ \A n \in T : Min(T) <= n
  <2> HIDE DEF T
  <2>1. T \subseteq Nat BY DEF T
  <2>. QED BY <1>1, <2>1, LeastOf
<1>3. \A n \in S : n <= b - Min(T)
  <2> SUFFICES ASSUME NEW n \in S PROVE n <= b - Min(T)
    OBVIOUS
  <2>1. b - n \in Nat /\ b - (b - n) = n
    OBVIOUS
  <2>2. b - n \in T
    BY <2>1
  <2>3. Min(T) <= b - n /\ Min(T) \in Nat
    BY <1>2, <2>2
  <2>. QED BY <2>3
<1>4. b - Min(T) \in S
  BY <1>2
<1>. QED BY <1>3, <1>4 DEF Max

\* ORDER BY sorts: each number of the set once, in ascending order.
LEMMA AscendingIs ==
  ASSUME NEW S, S \subseteq Int, IsFiniteSet(S)
  PROVE  /\ Cardinality(S) \in Nat
         /\ Ascending(S) \in [1 .. Cardinality(S) -> S]
         /\ \A i, j \in 1 .. Cardinality(S) : i < j => Ascending(S)[i] < Ascending(S)[j]
         /\ \A n \in S : \E i \in 1 .. Cardinality(S) : Ascending(S)[i] = n
<1> DEFINE Below(n) == {m \in S : m <= n}
           rank == [n \in S |-> Cardinality(Below(n))]
           N == Cardinality(S)
<1>1. N \in Nat
  BY FS_CardinalityType
<1>2. \A n \in S : /\ Below(n) \in SUBSET S /\ IsFiniteSet(Below(n))
                   /\ Cardinality(Below(n)) \in 1 .. N
  <2> SUFFICES ASSUME NEW n \in S
               PROVE  IsFiniteSet(Below(n)) /\ Cardinality(Below(n)) \in 1 .. N
    OBVIOUS
  <2>1. IsFiniteSet(Below(n)) /\ Cardinality(Below(n)) <= N
    BY FS_Subset, Below(n) \in SUBSET S
  <2>2. Cardinality(Below(n)) \in Nat
    BY <2>1, FS_CardinalityType
  <2>3. n \in Below(n)
    OBVIOUS
  <2>4. Cardinality(Below(n)) # 0
    BY <2>1, <2>3, FS_EmptySet
  <2>. QED BY <1>1, <2>1, <2>2, <2>4
<1>3. ASSUME NEW m \in S, NEW n \in S, m < n PROVE rank[m] < rank[n]
  <2>1. Below(m) \in SUBSET Below(n)
    <3> SUFFICES ASSUME NEW k \in S, k <= m PROVE k <= n
      OBVIOUS
    <3>1. k \in Int /\ m \in Int /\ n \in Int
      OBVIOUS
    <3>. QED BY <1>3, <3>1
  <2>2. n \in Below(n) /\ n \notin Below(m)
    BY <1>3
  <2>3. Cardinality(Below(m)) <= Cardinality(Below(n))
    BY <1>2, <2>1, FS_Subset
  <2>4. Cardinality(Below(m)) # Cardinality(Below(n))
    BY <1>2, <2>1, <2>2, FS_Subset
  <2>5. Cardinality(Below(m)) \in Int /\ Cardinality(Below(n)) \in Int
    BY <1>2
  <2>6. rank[m] = Cardinality(Below(m)) /\ rank[n] = Cardinality(Below(n))
    OBVIOUS
  <2> HIDE DEF rank, Below
  <2>. QED BY <2>3, <2>4, <2>5, <2>6
<1>4. rank \in [S -> 1 .. N]
  BY <1>2
<1>5. rank \in Injection(S, 1 .. N)
  <2> HIDE DEF rank, N
  <2>1. ASSUME NEW m \in S, NEW n \in S, m # n PROVE rank[m] # rank[n]
    <3>1. m < n \/ n < m
      BY <2>1
    <3>2. rank[m] \in Int /\ rank[n] \in Int
      BY <1>4, <1>1
    <3>. QED BY <1>3, <3>1, <3>2
  <2>. QED BY <1>4, <2>1 DEF Injection, IsInjective
<1>6. rank \in Surjection(S, 1 .. N)
  <2>1. IsFiniteSet(1 .. N) /\ Cardinality(1 .. N) = N
    BY <1>1, FS_Interval
  <2> HIDE DEF rank
  <2>. QED BY <1>5, <2>1, FS_Injection
<1>7. \A k \in 1 .. N : \E n \in S : rank[n] = k
  <2> HIDE DEF rank, N
  <2>. QED BY <1>6 DEF Surjection
<1>8. \A n \in S : rank[n] = Cardinality({m \in S : m <= n})
  OBVIOUS
<1> DEFINE a == Ascending(S)
<1>9. \A k \in 1 .. N : a[k] \in S /\ rank[a[k]] = k
  <2> SUFFICES ASSUME NEW k \in 1 .. N PROVE a[k] \in S /\ rank[a[k]] = k
    OBVIOUS
  <2>1. a[k] = CHOOSE n \in S : Cardinality({m \in S : m <= n}) = k
    BY DEF Ascending
  <2>2. \E n \in S : Cardinality({m \in S : m <= n}) = k
    BY <1>7, <1>8
  <2>. QED BY <2>1, <2>2, <1>8
<1>10. a \in [1 .. N -> S]
  BY <1>9 DEF Ascending
<1>11. \A i, j \in 1 .. N : i < j => a[i] < a[j]
  <2> HIDE DEF a, rank
  <2> SUFFICES ASSUME NEW i \in 1 .. N, NEW j \in 1 .. N, i < j PROVE a[i] < a[j]
    OBVIOUS
  <2>1. a[i] \in Int /\ a[j] \in Int /\ rank[a[i]] = i /\ rank[a[j]] = j
    BY <1>9
  <2>2. ~ (a[j] < a[i])
    BY <1>3, <1>9, <2>1, <1>1
  <2>3. a[i] # a[j]
    BY <2>1
  <2>. QED BY <2>1, <2>2, <2>3
<1>12. \A n \in S : \E i \in 1 .. N : a[i] = n
  <2> HIDE DEF a, rank, N
  <2> SUFFICES ASSUME NEW n \in S PROVE \E i \in 1 .. N : a[i] = n
    OBVIOUS
  <2>1. rank[n] \in 1 .. N
    BY <1>4
  <2>2. a[rank[n]] \in S /\ rank[a[rank[n]]] = rank[n]
    BY <2>1, <1>9
  <2>3. a[rank[n]] = n
    BY <2>2, <1>5 DEF Injection, IsInjective
  <2>. QED BY <2>1, <2>3
<1>. QED BY <1>1, <1>10, <1>11, <1>12

\* Bars are numbered from one.
LEMMA BarsAre ==
  /\ MaxTicks \div BarTicks \in Nat
  /\ 1 \in Bars /\ Bars \subseteq Nat \ {0}
<1>1. ASSUME NEW a \in Nat, NEW b \in Nat \ {0} PROVE a \div b \in Nat
  OBVIOUS
<1>. QED BY <1>1, IngestAssumption DEF Bars

----------------------------------------------------------------------------
\* What an adapter makes of the rows a vendor offers.

Strict(cs) == \A i, j \in DOMAIN cs : i < j => cs[i].at < cs[j].at

\* What the vendor offers in these rows.
Sold(rows) == {CandleOf(row) : row \in {w \in Range(rows) : Whole(w)}}

\* Rows of open bars, as a vendor may send them, any number of them: Yahoo's in
\* order, Twelve Data's newest first, Binance's in any order, repeated or not.
AsSent(rows) ==
  /\ \E n \in Nat : rows = [i \in 1 .. n |-> rows[i]]
  /\ \A i \in DOMAIN rows :
       /\ rows[i].at \in Opened /\ rows[i].of = rows[i].at
       /\ rows[i].version = Version(rows[i].at)
       /\ rows[i].shape \in Shapes(Vendor)
  /\ Vendor = "yahoo" => Strict(rows)
  /\ Vendor = "twelvedata" => \A i, j \in DOMAIN rows : i < j => rows[i].at > rows[j].at

\* The bars open by now are the first ones, without a gap.
LEMMA OpenedAre ==
  ASSUME now \in 0 .. MaxTicks
  PROVE  /\ 1 \in Opened /\ Opened \subseteq Bars
         /\ Max(Opened) \in Opened /\ \A bar \in Opened : bar <= Max(Opened)
         /\ \A bar \in Opened : bar # 1 => bar - 1 \in Opened
         /\ \A from \in Opened : \A bar \in from .. Max(Opened) : bar \in Opened
         /\ \A bar \in Opened : Version(bar) \in 0 .. BarTicks
<1>. /\ BarTicks \in Nat \ {0} /\ MaxTicks \in Nat
     /\ MaxTicks \div BarTicks \in Nat
     /\ 1 \in Bars /\ Bars \subseteq Nat \ {0}
  BY IngestAssumption, BarsAre
<1>1. 1 \in Opened /\ Opened \subseteq Bars
  <2>1. (1 - 1) * BarTicks = 0
    OBVIOUS
  <2>. QED BY <2>1 DEF Opened
<1>2. Max(Opened) \in Opened /\ \A bar \in Opened : bar <= Max(Opened)
  <2>1. Opened \subseteq 0 .. (MaxTicks \div BarTicks) + 1
    BY DEF Opened, Bars
  <2>2. (MaxTicks \div BarTicks) + 1 \in Nat
    OBVIOUS
  <2>. QED BY <1>1, <2>1, <2>2, GreatestOf
<1>3. ASSUME NEW top \in Opened, NEW bar \in Bars, bar <= top PROVE bar \in Opened
  <2>1. top \in Nat \ {0} /\ bar \in Nat \ {0} /\ (top - 1) * BarTicks <= now
    BY <1>1 DEF Opened
  <2>2. ASSUME NEW i \in Nat, NEW j \in Nat, i <= j PROVE i * BarTicks <= j * BarTicks
    <3>1. PICK d \in Nat : j = i + d
      BY <2>2, j - i \in Nat, j = i + (j - i)
    <3>2. j * BarTicks = i * BarTicks + d * BarTicks
      BY <3>1
    <3>3. d * BarTicks \in Nat /\ i * BarTicks \in Nat
      OBVIOUS
    <3>. QED BY <3>2, <3>3
  <2>3. (bar - 1) * BarTicks <= (top - 1) * BarTicks
    BY <1>3, <2>1, <2>2, bar - 1 \in Nat, top - 1 \in Nat
  <2>4. (bar - 1) * BarTicks \in Int /\ (top - 1) * BarTicks \in Int
    BY <2>1
  <2>. QED BY <2>1, <2>3, <2>4 DEF Opened
<1>4. ASSUME NEW bar \in Opened, bar # 1 PROVE bar - 1 \in Opened
  <2>1. bar \in Bars /\ bar \in Nat \ {0}
    BY <1>1
  <2>2. bar - 1 \in Bars
    BY <1>4, <2>1 DEF Bars
  <2>. QED BY <1>3, <2>1, <2>2
<1>5. ASSUME NEW from \in Opened, NEW bar \in from .. Max(Opened) PROVE bar \in Opened
  <2>1. from \in Bars /\ Max(Opened) \in Bars
    BY <1>1, <1>2
  <2>2. bar \in Bars /\ bar <= Max(Opened)
    BY <2>1 DEF Bars
  <2>. QED BY <1>2, <1>3, <2>2
<1>6. ASSUME NEW bar \in Opened PROVE Version(bar) \in 0 .. BarTicks
  <2>1. (bar - 1) * BarTicks <= now /\ (bar - 1) * BarTicks \in Int
    BY <1>1 DEF Opened
  <2>. QED BY <2>1 DEF Version
<1>. QED BY <1>1, <1>2, <1>4, <1>5, <1>6

\* Vendors offer rows of open bars, in the order each sends them.
LEMMA OffersAre ==
  ASSUME now \in 0 .. MaxTicks, source \in Sources, NEW rows \in Offers
  PROVE  AsSent(rows)
<1> DEFINE last == Max(Opened)
<1>1. /\ last \in Opened /\ last \in Nat \ {0}
      /\ last # 1 => last - 1 \in Opened
  BY OpenedAre, BarsAre
<1>2. PICK b \in {<<>>, <<last>>, <<last, last - 1>>, <<last - 1, last>>, <<last, last - 1, last>>} :
        /\ \E shape \in [DOMAIN b -> Shapes(Vendor)] : rows = [i \in DOMAIN b |-> Offer(b[i], shape[i])]
        /\ b \notin {<<>>, <<last>>} => last # 1
        /\ Vendor = "yahoo" => b \in {<<>>, <<last>>, <<last - 1, last>>}
        /\ Vendor = "twelvedata" => b \in {<<>>, <<last>>, <<last, last - 1>>}
  <2> HIDE DEF last
  <2>. QED BY DEF Offers, last
<1> HIDE DEF last
<1>3. /\ \E n \in 0 .. 3 : DOMAIN b = 1 .. n
      /\ \A i \in DOMAIN b : b[i] \in Opened
      /\ Vendor = "yahoo" => \A i, j \in DOMAIN b : i < j => b[i] < b[j]
      /\ Vendor = "twelvedata" => \A i, j \in DOMAIN b : i < j => b[i] > b[j]
  <2>0. CASE b = <<>>
    BY <2>0
  <2>1. CASE b = <<last>>
    BY <1>1, <2>1
  <2>2. CASE b = <<last, last - 1>>
    BY <1>1, <1>2, <2>2
  <2>3. CASE b = <<last - 1, last>>
    BY <1>1, <1>2, <2>3
  <2>4. CASE b = <<last, last - 1, last>>
    BY <1>1, <1>2, <2>4
  <2>. QED BY <2>0, <2>1, <2>2, <2>3, <2>4
<1>. PICK shape \in [DOMAIN b -> Shapes(Vendor)] : rows = [i \in DOMAIN b |-> Offer(b[i], shape[i])]
  BY <1>2
<1>4. /\ \A n \in 0 .. 3 : DOMAIN b = 1 .. n => rows = [i \in 1 .. n |-> rows[i]]
      /\ DOMAIN rows = DOMAIN b
      /\ \A i \in DOMAIN b : /\ rows[i].at = b[i] /\ rows[i].of = b[i]
                             /\ rows[i].version = Version(b[i]) /\ rows[i].shape = shape[i]
  BY DEF Offer
<1>5. \E n \in Nat : rows = [i \in 1 .. n |-> rows[i]]
  <2>1. PICK n \in 0 .. 3 : DOMAIN b = 1 .. n
    BY <1>3
  <2>2. n \in Nat /\ rows = [i \in 1 .. n |-> rows[i]]
    BY <1>4, <2>1
  <2>. QED BY <2>2
<1>6. ASSUME NEW i \in DOMAIN rows
      PROVE  /\ rows[i].at \in Opened /\ rows[i].of = rows[i].at
             /\ rows[i].version = Version(rows[i].at)
             /\ rows[i].shape \in Shapes(Vendor)
  BY <1>3, <1>4
<1>7. /\ Vendor = "yahoo" => Strict(rows)
      /\ Vendor = "twelvedata" => \A i, j \in DOMAIN rows : i < j => rows[i].at > rows[j].at
  <2>1. \A i \in DOMAIN rows : rows[i].at = b[i] /\ i \in DOMAIN b
    BY <1>4
  <2>. QED BY <1>3, <2>1 DEF Strict
<1>. QED BY <1>5, <1>6, <1>7 DEF AsSent

\* What an adapter may return of these rows.
Good(cs, rows) ==
  /\ cs \in Seq(Candle)
  /\ Strict(cs)
  /\ \A i \in DOMAIN cs : cs[i] \in Sold(rows)
  /\ cs # <<>> => \A c \in Sold(rows) : c.at <= cs[Len(cs)].at

\* Rows are read as candles; the whole ones are those it sold.
LEMMA RowsAre ==
  ASSUME now \in 0 .. MaxTicks, NEW rows, AsSent(rows)
  PROVE  /\ rows \in Seq(Range(rows))
         /\ \A i \in DOMAIN rows : CandleOf(rows[i]) \in Candle /\ CandleOf(rows[i]).at = rows[i].at
         /\ \A i \in DOMAIN rows : Whole(rows[i]) => CandleOf(rows[i]) \in Sold(rows)
         /\ \A c \in Sold(rows) : \E i \in DOMAIN rows : Whole(rows[i]) /\ c = CandleOf(rows[i])
<1>1. rows \in Seq(Range(rows))
  <2>1. PICK n \in Nat : rows = [i \in 1 .. n |-> rows[i]]
    BY DEF AsSent
  <2>2. rows \in [1 .. n -> Range(rows)]
    BY <2>1 DEF Range
  <2>. QED BY <2>2, SeqDef
<1>2. \A i \in DOMAIN rows : CandleOf(rows[i]) \in Candle /\ CandleOf(rows[i]).at = rows[i].at
  <2> SUFFICES ASSUME NEW i \in DOMAIN rows
               PROVE  CandleOf(rows[i]) \in Candle /\ CandleOf(rows[i]).at = rows[i].at
    OBVIOUS
  <2>1. rows[i].at \in Bars /\ rows[i].of \in Bars /\ rows[i].version \in 0 .. BarTicks
    BY OpenedAre DEF AsSent
  <2>. QED BY <2>1 DEF CandleOf, Candle
<1>3. \A i \in DOMAIN rows : Whole(rows[i]) => CandleOf(rows[i]) \in Sold(rows)
  BY DEF Sold, Range
<1>4. \A c \in Sold(rows) : \E i \in DOMAIN rows : Whole(rows[i]) /\ c = CandleOf(rows[i])
  BY DEF Sold, Range
<1>. QED BY <1>1, <1>2, <1>3, <1>4

\* Cutting off the oldest leaves a good answer.
LEMMA SuffixIsGood ==
  ASSUME NEW rows, NEW cs, Good(cs, rows), NEW skipped \in Nat
  PROVE  Good(SubSeq(cs, skipped + 1, Len(cs)), rows)
<1> DEFINE t == SubSeq(cs, skipped + 1, Len(cs))
<1>1. cs \in Seq(Candle) /\ Len(cs) \in Nat /\ DOMAIN cs = 1 .. Len(cs)
  BY LenProperties DEF Good
<1>2. /\ t \in Seq(Candle)
      /\ skipped < Len(cs) => Len(t) = Len(cs) - skipped
      /\ ~ (skipped < Len(cs)) => Len(t) = 0
      /\ \A i \in 1 .. Len(cs) - skipped : t[i] = cs[skipped + i]
  <2>1. \A i \in skipped + 1 .. Len(cs) : cs[i] \in Candle
    BY <1>1, ElementOfSeq
  <2>2. \A i \in 1 .. Len(cs) - (skipped + 1) + 1 : t[i] = cs[(skipped + 1) + i - 1]
    BY <1>1, <2>1, SubSeqProperties
  <2>3. t \in Seq(Candle) /\ Len(t) = IF skipped + 1 <= Len(cs) THEN Len(cs) - (skipped + 1) + 1 ELSE 0
    BY <1>1, <2>1, SubSeqProperties
  <2>4. Len(cs) - (skipped + 1) + 1 = Len(cs) - skipped
        /\ \A i \in Int : (skipped + 1) + i - 1 = skipped + i
    BY <1>1
  <2> HIDE DEF t
  <2>5. \A i \in 1 .. Len(cs) - skipped : t[i] = cs[skipped + i]
    BY <2>2, <2>4
  <2>6. skipped + 1 <= Len(cs) <=> skipped < Len(cs)
    BY <1>1
  <2>. QED BY <2>3, <2>4, <2>5, <2>6
<1> HIDE DEF t
<1>3. DOMAIN t = 1 .. Len(t) /\ Len(t) \in Nat
  BY <1>2, LenProperties
<1>4. \A i \in DOMAIN t : i \in 1 .. Len(cs) - skipped /\ skipped + i \in DOMAIN cs
  <2> SUFFICES ASSUME NEW i \in 1 .. Len(t) PROVE i \in 1 .. Len(cs) - skipped /\ skipped + i \in 1 .. Len(cs)
    BY <1>1, <1>3
  <2>1. skipped < Len(cs) /\ Len(t) = Len(cs) - skipped
    BY <1>2, <1>3
  <2>. QED BY <1>1, <2>1
<1>5. Strict(t)
  <2> SUFFICES ASSUME NEW i \in DOMAIN t, NEW j \in DOMAIN t, i < j PROVE t[i].at < t[j].at
    BY DEF Strict
  <2>1. t[i] = cs[skipped + i] /\ t[j] = cs[skipped + j] /\ skipped + i < skipped + j
    BY <1>2, <1>3, <1>4
  <2>. QED BY <1>4, <2>1 DEF Strict, Good
<1>6. \A i \in DOMAIN t : t[i] \in Sold(rows)
  BY <1>2, <1>4 DEF Good
<1>7. t # <<>> => cs # <<>> /\ t[Len(t)] = cs[Len(cs)]
  <2> SUFFICES ASSUME t # <<>> PROVE cs # <<>> /\ t[Len(t)] = cs[Len(cs)]
    OBVIOUS
  <2>1. Len(t) # 0
    BY <1>2, EmptySeq
  <2>2. Len(t) = Len(cs) - skipped /\ Len(t) \in 1 .. Len(cs) - skipped /\ Len(cs) # 0
    <3>1. skipped < Len(cs) /\ Len(t) = Len(cs) - skipped
      BY <1>2, <2>1
    <3>. QED BY <1>1, <3>1
  <2>3. skipped + (Len(cs) - skipped) = Len(cs)
    BY <1>1
  <2>4. cs # <<>>
    BY <2>2, EmptySeq
  <2>. QED BY <1>2, <2>2, <2>3, <2>4
<1>8. Good(t, rows)
  BY <1>2, <1>5, <1>6, <1>7 DEF Good
<1>. QED BY <1>8 DEF t

\* So does a slice by any limit, a negative one too.
LEMMA LatestIsGood ==
  ASSUME NEW rows, NEW cs, Good(cs, rows), NEW limit \in Int
  PROVE  Good(Latest(cs, limit), rows)
<1> DEFINE skipped == IF limit > 0 THEN Len(cs) - limit ELSE -limit
<1>1. skipped \in Int
  BY LenProperties DEF Good
<1>2. CASE skipped <= 0
  BY <1>2 DEF Latest
<1>3. CASE skipped > 0
  <2>1. Good(SubSeq(cs, skipped + 1, Len(cs)), rows)
    <3> HIDE DEF skipped
    <3>. QED BY <1>1, <1>3, SuffixIsGood
  <2>. QED BY <1>3, <2>1 DEF Latest
<1>. QED BY <1>1, <1>2, <1>3

\* No candles are no wrong candles.
LEMMA EmptyIsGood == ASSUME NEW rows PROVE Good(<<>>, rows)
  BY DEF Good, Strict

\* Skipping the damaged rows keeps the whole ones, in their order.
LEMMA PickedAreSold ==
  ASSUME now \in 0 .. MaxTicks, NEW rows, AsSent(rows),
         NEW kept, kept = {i \in DOMAIN rows : Whole(rows[i])}
  PROVE  LET cs == ToCandles(Picked(rows, kept))
         IN /\ cs \in Seq(Candle)
            /\ \A i \in DOMAIN cs : cs[i] \in Sold(rows)
            /\ \A c \in Sold(rows) : \E i \in DOMAIN cs : cs[i] = c
            /\ Strict(rows) => Strict(cs)
<1> DEFINE a == Ascending(kept)
           n == Cardinality(kept)
           cs == ToCandles(Picked(rows, kept))
<1>1. kept \subseteq Int /\ IsFiniteSet(kept)
  <2>1. DOMAIN rows = 1 .. Len(rows) /\ Len(rows) \in Nat
    BY RowsAre, LenProperties
  <2>2. IsFiniteSet(DOMAIN rows) /\ kept \in SUBSET DOMAIN rows
    BY <2>1, FS_Interval
  <2>. QED BY <2>1, <2>2, FS_Subset
<1>2. /\ n \in Nat /\ a \in [1 .. n -> kept]
      /\ \A i, j \in 1 .. n : i < j => a[i] < a[j]
      /\ \A k \in kept : \E i \in 1 .. n : a[i] = k
  BY <1>1, AscendingIs
<1>3. cs = [k \in 1 .. n |-> CandleOf(rows[a[k]])]
  BY <1>2 DEF ToCandles, Picked
<1>4. \A k \in 1 .. n : a[k] \in DOMAIN rows /\ Whole(rows[a[k]])
  BY <1>2
<1> HIDE DEF a, cs, n
<1>5. cs \in Seq(Candle) /\ DOMAIN cs = 1 .. n
  BY <1>2, <1>3, <1>4, RowsAre
<1>6. \A i \in DOMAIN cs : cs[i] \in Sold(rows)
  BY <1>3, <1>4, <1>5, RowsAre
<1>7. ASSUME NEW c \in Sold(rows) PROVE \E i \in DOMAIN cs : cs[i] = c
  <2>1. PICK i \in kept : c = CandleOf(rows[i])
    BY RowsAre
  <2>2. PICK k \in 1 .. n : a[k] = i
    BY <1>2
  <2>. QED BY <1>3, <1>5, <2>1, <2>2
<1>8. ASSUME Strict(rows), NEW i \in DOMAIN cs, NEW j \in DOMAIN cs, i < j
      PROVE  cs[i].at < cs[j].at
  <2>1. a[i] < a[j] /\ a[i] \in DOMAIN rows /\ a[j] \in DOMAIN rows
    BY <1>2, <1>4, <1>5, <1>8
  <2>2. rows[a[i]].at < rows[a[j]].at
    BY <1>8, <2>1 DEF Strict
  <2>. QED BY <1>3, <1>5, <2>1, <2>2, RowsAre
<1>9. Strict(rows) => Strict(cs)
  BY <1>8 DEF Strict
<1>. QED BY <1>5, <1>6, <1>7, <1>9 DEF cs

\* All that was sold, in order, is a good answer.
LEMMA AllSoldIsGood ==
  ASSUME NEW rows, NEW cs \in Seq(Candle), Strict(cs),
         \A i \in DOMAIN cs : cs[i] \in Sold(rows),
         \A c \in Sold(rows) : \E i \in DOMAIN cs : cs[i].at = c.at
  PROVE  Good(cs, rows)
<1>1. ASSUME NEW c \in Sold(rows) PROVE c.at <= cs[Len(cs)].at
  <2>1. PICK i \in DOMAIN cs : cs[i].at = c.at
    OBVIOUS
  <2>2. DOMAIN cs = 1 .. Len(cs) /\ Len(cs) \in Nat
    BY LenProperties
  <2>3. Len(cs) \in DOMAIN cs /\ (i = Len(cs) \/ i < Len(cs))
    BY <2>2
  <2>4. cs[i] \in Candle /\ cs[Len(cs)] \in Candle
    BY <2>2, <2>3, ElementOfSeq
  <2>5. cs[i].at \in Nat /\ cs[Len(cs)].at \in Nat
    BY <2>4, BarsAre DEF Candle
  <2>6. cs[i].at <= cs[Len(cs)].at
    <3>1. CASE i = Len(cs)
      BY <2>5, <3>1
    <3>2. CASE i < Len(cs)
      <4>1. cs[i].at < cs[Len(cs)].at
        BY <2>3, <3>2 DEF Strict
      <4>2. \A m, n \in Nat : m < n => m <= n
        OBVIOUS
      <4>. QED BY <2>5, <4>1, <4>2
    <3>. QED BY <2>3, <3>1, <3>2
  <2>. QED BY <2>1, <2>6
<1>. QED BY <1>1 DEF Good

\* The four adapters: Yahoo skips nulls,
LEMMA YahooIsGood ==
  ASSUME now \in 0 .. MaxTicks, Vendor = "yahoo", NEW rows, AsSent(rows), NEW limit \in Int
  PROVE  LET result == YahooCandles(rows, limit)
         IN result.code \in {"ok", "malformed_data"} /\ Good(result.candles, rows)
              /\ (result.code # "ok" => result.candles = <<>>)
<1> DEFINE kept == {i \in DOMAIN rows : HasCandle(rows[i])}
           cs == ToCandles(Picked(rows, kept))
<1>1. CASE \E row \in Range(rows) : row.shape = "unreadable"
  BY <1>1, EmptyIsGood DEF YahooCandles, Failed
<1>2. CASE ~ \E row \in Range(rows) : row.shape = "unreadable"
  <2>1. kept = {i \in DOMAIN rows : Whole(rows[i])}
    BY <1>2 DEF HasCandle, Whole, Range, AsSent, Shapes
  <2>2. Strict(rows)
    BY DEF AsSent
  <2>3. Good(cs, rows)
    <3> HIDE DEF kept
    <3>. QED BY <2>1, <2>2, PickedAreSold, AllSoldIsGood
  <2>4. YahooCandles(rows, limit) = Usable(cs, limit)
    BY <1>2 DEF YahooCandles
  <2> HIDE DEF cs
  <2>. QED BY <2>3, <2>4, LatestIsGood, EmptyIsGood DEF Usable, Candles, Failed
<1>. QED BY <1>1, <1>2

\* Twelve Data turns the series round,
LEMMA TwelveDataIsGood ==
  ASSUME now \in 0 .. MaxTicks, Vendor = "twelvedata", NEW rows, AsSent(rows), NEW limit \in Int
  PROVE  LET result == TwelveDataCandles(rows, limit)
         IN result.code \in {"ok", "malformed_data"} /\ Good(result.candles, rows)
              /\ (result.code # "ok" => result.candles = <<>>)
<1> DEFINE cs == ToCandles(Reverse(rows))
<1>1. CASE \E row \in Range(rows) : ~Whole(row)
  BY <1>1, EmptyIsGood DEF TwelveDataCandles, Failed
<1>2. CASE ~ \E row \in Range(rows) : ~Whole(row)
  <2>1. DOMAIN rows = 1 .. Len(rows) /\ Len(rows) \in Nat /\ \A i \in DOMAIN rows : Whole(rows[i])
    BY <1>2, RowsAre, LenProperties DEF Range
  <2>2. cs = [i \in 1 .. Len(rows) |-> CandleOf(rows[Len(rows) + 1 - i])]
    <3>1. Reverse(rows) = [i \in 1 .. Len(rows) |-> rows[Len(rows) + 1 - i]]
      BY <2>1 DEF Reverse
    <3>. QED BY <2>1, <3>1 DEF ToCandles
  <2>3. \A i \in 1 .. Len(rows) : Len(rows) + 1 - i \in 1 .. Len(rows)
    BY <2>1
  <2> HIDE DEF cs
  <2>4. cs \in Seq(Candle) /\ DOMAIN cs = 1 .. Len(rows)
    BY <2>1, <2>2, <2>3, RowsAre
  <2>5. \A i \in DOMAIN cs : cs[i] \in Sold(rows)
    BY <2>1, <2>2, <2>3, <2>4, RowsAre
  <2>6. ASSUME NEW c \in Sold(rows) PROVE \E i \in DOMAIN cs : cs[i].at = c.at
    <3>1. PICK i \in 1 .. Len(rows) : c = CandleOf(rows[i])
      BY <2>1, RowsAre
    <3>2. Len(rows) + 1 - (Len(rows) + 1 - i) = i
      BY <2>1
    <3>. QED BY <2>2, <2>3, <2>4, <3>1, <3>2
  <2>7. Strict(cs)
    <3> SUFFICES ASSUME NEW i \in 1 .. Len(rows), NEW j \in 1 .. Len(rows), i < j PROVE cs[i].at < cs[j].at
      BY <2>4 DEF Strict
    <3>1. Len(rows) + 1 - j < Len(rows) + 1 - i
      BY <2>1
    <3>2. rows[Len(rows) + 1 - j].at > rows[Len(rows) + 1 - i].at
      BY <2>1, <2>3, <3>1 DEF AsSent
    <3>3. /\ cs[i].at = rows[Len(rows) + 1 - i].at
          /\ cs[j].at = rows[Len(rows) + 1 - j].at
      BY <2>1, <2>2, <2>3, RowsAre
    <3>4. cs[i].at \in Nat /\ cs[j].at \in Nat
      <4>1. cs[i] \in Candle /\ cs[j] \in Candle
        BY <2>4, ElementOfSeq, LenProperties
      <4>. QED BY <4>1, BarsAre DEF Candle
    <3>. QED BY <3>2, <3>3, <3>4
  <2>8. Good(cs, rows)
    BY <2>4, <2>5, <2>6, <2>7, AllSoldIsGood
  <2>9. TwelveDataCandles(rows, limit) = Usable(cs, limit)
    BY <1>2 DEF TwelveDataCandles, cs
  <2>. QED BY <2>8, <2>9, LatestIsGood, EmptyIsGood DEF Usable, Candles, Failed
<1>. QED BY <1>1, <1>2

\* sorting without repetition loses no bar,
LEMMA SortUniqueIsGood ==
  ASSUME NEW rows, NEW cs \in Seq(Candle),
         \A i \in DOMAIN cs : cs[i] \in Sold(rows),
         \A c \in Sold(rows) : \E i \in DOMAIN cs : cs[i] = c
  PROVE  Good(SortUnique(cs), rows)
<1> DEFINE S == {c.at : c \in Range(cs)}
           a == Ascending(S)
           n == Cardinality(S)
           places(at) == {i \in DOMAIN cs : cs[i].at = at}
           t == SortUnique(cs)
<1>1. /\ DOMAIN cs = 1 .. Len(cs) /\ Len(cs) \in Nat
      /\ \A i \in DOMAIN cs : cs[i] \in Candle /\ cs[i].at \in Bars
  <2>1. DOMAIN cs = 1 .. Len(cs) /\ Len(cs) \in Nat
    BY LenProperties
  <2>2. \A i \in DOMAIN cs : cs[i] \in Candle
    BY <2>1, ElementOfSeq
  <2>. QED BY <2>1, <2>2 DEF Candle
<1>2. S \subseteq Int /\ IsFiniteSet(S)
  <2>1. S \in SUBSET Bars
    BY <1>1 DEF Range
  <2>2. IsFiniteSet(Bars)
    BY BarsAre, FS_Interval DEF Bars
  <2>3. Bars \subseteq Int
    BY BarsAre
  <2> HIDE DEF S
  <2>. QED BY <2>1, <2>2, <2>3, FS_Subset
<1>3. /\ n \in Nat /\ a \in [1 .. n -> S]
      /\ \A i, j \in 1 .. n : i < j => a[i] < a[j]
      /\ \A k \in S : \E i \in 1 .. n : a[i] = k
  <2> HIDE DEF S
  <2>. QED BY <1>2, AscendingIs
<1>4. ASSUME NEW at \in S PROVE Min(places(at)) \in DOMAIN cs /\ cs[Min(places(at))].at = at
  <2>1. places(at) \subseteq Nat /\ places(at) # {}
    BY <1>1, <1>4 DEF Range
  <2>2. Min(places(at)) \in places(at)
    <3> HIDE DEF places
    <3>. QED BY <2>1, LeastOf
  <2>. QED BY <2>2
<1>5. t = [i \in 1 .. n |-> cs[Min(places(a[i]))]]
  BY <1>3 DEF SortUnique
<1> HIDE DEF a, n, places, t
<1>6. \A i \in 1 .. n : /\ t[i] = cs[Min(places(a[i]))] /\ t[i] \in Candle
                         /\ t[i].at = a[i] /\ t[i] \in Sold(rows)
  BY <1>1, <1>3, <1>4, <1>5
<1>7. t \in Seq(Candle) /\ DOMAIN t = 1 .. n
  BY <1>3, <1>5, <1>6
<1>8. Strict(t)
  BY <1>3, <1>6, <1>7 DEF Strict
<1>9. ASSUME NEW c \in Sold(rows) PROVE \E i \in DOMAIN t : t[i].at = c.at
  <2>1. c.at \in S
    <3>1. PICK i \in DOMAIN cs : cs[i] = c
      OBVIOUS
    <3>. QED BY <3>1 DEF Range
  <2>2. PICK i \in 1 .. n : a[i] = c.at
    BY <1>3, <2>1
  <2>. QED BY <1>6, <1>7, <2>2
<1>10. Good(t, rows)
  BY <1>6, <1>7, <1>8, <1>9, AllSoldIsGood, ZenonT(30)
<1>. QED BY <1>10 DEF t

\* and so Binance may repeat rows or send them out of order.
LEMMA BinanceIsGood ==
  ASSUME now \in 0 .. MaxTicks, NEW rows, AsSent(rows)
  PROVE  LET result == BinanceCandles(rows)
         IN result.code \in {"ok", "malformed_data", "unexpected"} /\ Good(result.candles, rows)
              /\ (result.code # "ok" => result.candles = <<>>)
<1> DEFINE present == {i \in DOMAIN rows : rows[i].shape # "empty"}
           bad == {i \in present : KlineFails(rows[i])}
<1>1. CASE bad = {}
  <2>1. present = {i \in DOMAIN rows : Whole(rows[i])}
    BY <1>1 DEF KlineFails, Whole
  <2>2. Good(SortUnique(ToCandles(Picked(rows, present))), rows)
    <3> HIDE DEF present
    <3>. QED BY <2>1, PickedAreSold, SortUniqueIsGood
  <2>3. BinanceCandles(rows) = Candles(SortUnique(ToCandles(Picked(rows, present))))
    BY <1>1 DEF BinanceCandles
  <2> HIDE DEF present
  <2>. QED BY <2>2, <2>3 DEF Candles
<1>2. CASE bad # {}
  BY <1>2, EmptyIsGood DEF BinanceCandles, Failed
<1>. QED BY <1>1, <1>2

----------------------------------------------------------------------------
\* What an attempt makes of any reply.

VendorNames == {"binance", "kraken", "yahoo", "twelvedata"}

Refusals == {"authentication", "provider_validation"}

\* The vendor is one of the four.
LEMMA VendorIs == ASSUME source \in Sources PROVE Vendor \in VendorNames
  BY IngestAssumption DEF Vendor, VendorNames

\* What each vendor's errors become is in the taxonomy, and a refusal is a code that is not retried.
LEMMA KrakenCodes ==
  ASSUME NEW errors \in {<<"limit", "pair">>, <<"other", "pair">>, <<"key">>, <<"other">>}
  PROVE  /\ HandleKrakenErrors(errors) \in ProviderErrors
         /\ Head(errors) \in {"key", "pair"} => HandleKrakenErrors(errors) \in Refusals
<1> DEFINE known == {i \in DOMAIN errors : errors[i] \in DOMAIN KrakenErrors}
<1>1. DOMAIN errors \subseteq Nat
  <2>1. CASE errors \in {<<"limit", "pair">>, <<"other", "pair">>}
    <3>1. DOMAIN errors = 1 .. 2
      BY <2>1
    <3>. QED BY <3>1
  <2>2. CASE errors \in {<<"key">>, <<"other">>}
    <3>1. DOMAIN errors = 1 .. 1
      BY <2>2
    <3>. QED BY <3>1
  <2>. QED BY <2>1, <2>2
<1>2. known # {} => Min(known) \in known
  <2>1. known \subseteq Nat
    BY <1>1
  <2> HIDE DEF known
  <2>. QED BY <2>1, LeastOf
<1>3. DOMAIN KrakenErrors = {"limit", "key", "pair"}
  BY DEF KrakenErrors
<1>4. HandleKrakenErrors(errors) = IF known = {} THEN "provider_unavailable" ELSE KrakenErrors[errors[Min(known)]]
  BY DEF HandleKrakenErrors
<1>5. HandleKrakenErrors(errors) \in ProviderErrors
  <2>1. CASE known = {}
    BY <1>4, <2>1 DEF ProviderErrors
  <2>2. CASE known # {}
    <3>1. errors[Min(known)] \in {"limit", "key", "pair"}
      BY <1>2, <1>3, <2>2
    <3>. QED BY <1>4, <2>2, <3>1 DEF KrakenErrors, ProviderErrors
  <2>. QED BY <2>1, <2>2
<1>6. ASSUME Head(errors) \in {"key", "pair"} PROVE HandleKrakenErrors(errors) \in Refusals
  <2>1. errors = <<"key">>
    BY <1>6
  <2>2. DOMAIN errors = {1} /\ errors[1] = "key"
    BY <2>1
  <2>3. known = {1}
    BY <1>3, <2>2
  <2>4. Min(known) = 1
    BY <1>2, <2>3
  <2>. QED BY <1>4, <2>2, <2>3, <2>4 DEF KrakenErrors, Refusals
<1>. QED BY <1>5, <1>6

\* The same of every vendor's own errors.
LEMMA ErrorCodes ==
  ASSUME NEW vendor \in VendorNames, NEW reply \in ErrorReplies(vendor)
  PROVE  /\ reply.kind = "error"
         /\ Client(vendor, reply) \in ProviderErrors
         /\ QuoteClient(vendor, reply) \in ProviderErrors
         /\ Refuses(vendor, reply) /\ vendor # "binance" =>
              Client(vendor, reply) \in Refusals /\ QuoteClient(vendor, reply) \in Refusals
<1>1. reply.kind = "error"
  BY DEF ErrorReplies, VendorNames
<1>2. CASE vendor = "binance"
  <2>1. HandleBinanceError(reply.exc) \in ProviderErrors
    BY DEF HandleBinanceError, ProviderErrors
  <2>. QED BY <1>1, <1>2, <2>1 DEF Client, QuoteClient, FetchOhlcv, FetchTickersRaw
<1>3. CASE vendor = "kraken"
  <2>1. reply.errors \in {<<"limit", "pair">>, <<"other", "pair">>, <<"key">>, <<"other">>}
    BY <1>3 DEF ErrorReplies
  <2>2. Client(vendor, reply) = HandleKrakenErrors(reply.errors) /\ QuoteClient(vendor, reply) = HandleKrakenErrors(reply.errors)
    BY <1>1, <1>3 DEF Client, QuoteClient, Request
  <2>3. Refuses(vendor, reply) => Head(reply.errors) \in {"key", "pair"}
    BY <1>1, <1>3 DEF Refuses
  <2>. QED BY <1>1, <2>1, <2>2, <2>3, KrakenCodes
<1>4. CASE vendor = "yahoo"
  <2>1. reply.code \in {400, 401, 429, 500, NoCode}
    BY <1>4 DEF ErrorReplies
  <2>2. Client(vendor, reply) = HandleYahooError(reply.code) /\ QuoteClient(vendor, reply) = HandleYahooError(reply.code)
    BY <1>1, <1>4 DEF Client, QuoteClient, FetchChart
  <2>3. Refuses(vendor, reply) => reply.code \in {400, 401}
    BY <1>1, <1>4 DEF Refuses
  <2>. QED BY <1>1, <2>1, <2>2, <2>3 DEF HandleYahooError, ProviderErrors, Refusals
<1>5. CASE vendor = "twelvedata"
  <2>1. reply.code \in {400, 401, 429, 500, NoCode}
    BY <1>5 DEF ErrorReplies
  <2>2. Client(vendor, reply) = HandleTwelveDataError(reply.code) /\ QuoteClient(vendor, reply) = HandleTwelveDataError(reply.code)
    BY <1>1, <1>5 DEF Client, QuoteClient, FetchTimeSeries, FetchQuote
  <2>3. Refuses(vendor, reply) => reply.code \in {400, 401}
    BY <1>1, <1>5 DEF Refuses
  <2>. QED BY <1>1, <2>1, <2>2, <2>3, NoCodeAssumption DEF HandleTwelveDataError, ProviderErrors, Refusals
<1>. QED BY <1>2, <1>3, <1>4, <1>5 DEF VendorNames

\* The same of what goes wrong with a reply over HTTP.
LEMMA HttpCodes ==
  ASSUME NEW vendor \in VendorNames \ {"binance"}, NEW reply \in HttpReplies
  PROVE  /\ reply.kind \in {"timeout", "transport", "text", "schema", "status"}
         /\ Client(vendor, reply) \in ProviderErrors
         /\ QuoteClient(vendor, reply) \in ProviderErrors
         /\ Refuses(vendor, reply) =>
              Client(vendor, reply) \in Refusals /\ QuoteClient(vendor, reply) \in Refusals
<1>1. /\ reply.kind \in {"timeout", "transport", "text", "schema", "status"}
      /\ reply.kind = "status" => reply.status \in {401, 404, 408, 429, 500}
  BY DEF HttpReplies
<1>2. CASE reply.kind = "schema"
  BY <1>2 DEF Client, QuoteClient, Request, FetchChart, FetchTimeSeries, FetchQuote,
              HandleYahooValidationError, ProviderErrors, Refuses, VendorNames
<1>3. CASE reply.kind # "schema"
  <2>1. Client(vendor, reply) = GetJson(reply) /\ QuoteClient(vendor, reply) = GetJson(reply)
    BY <1>1, <1>3 DEF Client, QuoteClient, Request, FetchChart, FetchTimeSeries, FetchQuote, VendorNames
  <2>2. CASE reply.kind = "status"
    <3>1. GetJson(reply) = MapHttpError(reply.status)
      BY <2>2 DEF GetJson
    <3>2. MapHttpError(reply.status) \in ProviderErrors
      BY <1>1, <2>2 DEF MapHttpError, ProviderErrors
    <3>3. reply.status \in {401, 404} => MapHttpError(reply.status) \in Refusals
      BY DEF MapHttpError, Refusals
    <3>4. Refuses(vendor, reply) => reply.status \in {401, 404}
      BY <2>2 DEF Refuses
    <3>. QED BY <1>1, <2>1, <3>1, <3>2, <3>3, <3>4
  <2>3. CASE reply.kind # "status"
    <3>1. GetJson(reply) \in ProviderErrors
      BY <1>1, <1>3, <2>3 DEF GetJson, ProviderErrors
    <3>2. ~ Refuses(vendor, reply)
      BY <1>1, <2>3 DEF Refuses
    <3>. QED BY <1>1, <2>1, <3>1, <3>2
  <2>. QED BY <2>2, <2>3
<1>. QED BY <1>2, <1>3, <1>1

\* What becomes of a reply.
Answers(reply, result) ==
  /\ result.code \in ProviderErrors \cup {"ok", "unexpected"}
  /\ result.candles \in Seq(Candle)
  /\ result.code # "ok" => result.candles = <<>>
  /\ result.candles # <<>> => AsSent(reply.rows) /\ Good(result.candles, reply.rows)
  /\ Refuses(Vendor, reply) /\ Vendor # "binance" => result.code \in Refusals

\* So an attempt ends with candles the vendor sent, in order, the newest among
\* them, or with a code of the taxonomy, which for a refusal is one that is not
\* retried: fetch_candles of the four adapters, whatever and however much a vendor replies.
THEOREM AdaptersAnswer ==
  ASSUME now \in 0 .. MaxTicks, source \in Sources,
         NEW offers, \A rows \in offers : AsSent(rows),
         NEW reply \in Replies(Vendor, offers), NEW limit \in Int
  PROVE  Answers(reply, Attempted(Vendor, reply, limit))
<1> DEFINE result == Attempted(Vendor, reply, limit)
<1>1. Vendor \in VendorNames
  BY VendorIs
<1>2. CASE reply \in [kind : {"circuit", "overdue"}]
  <2>1. reply.kind \in {"circuit", "overdue"}
    BY <1>2
  <2>2. PICK code \in {"provider_unavailable", "unexpected"} : result = Failed(code)
    BY <2>1 DEF Attempted
  <2>3. ~ Refuses(Vendor, reply)
    BY <2>1 DEF Refuses
  <2>9. Answers(reply, result)
    <3> HIDE DEF result
    <3>. QED BY <2>2, <2>3 DEF Answers, Failed, ProviderErrors
  <2>. QED BY <2>9
<1>3. CASE reply \in ErrorReplies(Vendor)
  <2>1. result = Failed(Client(Vendor, reply))
    BY <1>1, <1>3, ErrorCodes DEF Attempted
  <2>9. Answers(reply, result)
    <3> HIDE DEF result
    <3>. QED BY <1>1, <1>3, <2>1, ErrorCodes DEF Answers, Failed, ProviderErrors
  <2>. QED BY <2>9
<1>4. CASE Vendor # "binance" /\ reply \in HttpReplies
  <2>1. result = Failed(Client(Vendor, reply))
    BY <1>1, <1>4, HttpCodes DEF Attempted
  <2>9. Answers(reply, result)
    <3> HIDE DEF result
    <3>. QED BY <1>1, <1>4, <2>1, HttpCodes DEF Answers, Failed, ProviderErrors
  <2>. QED BY <2>9
<1>5. CASE reply \in [kind : {"rows"}, rows : offers]
  <2>1. reply.kind = "rows" /\ reply.rows \in offers
    BY <1>5
  <2>2. Client(Vendor, reply) = "ok"
    BY <1>1, <2>1 DEF Client, FetchOhlcv, Request, FetchChart, FetchTimeSeries, GetJson, VendorNames
  <2>3. result = FetchCandles(Vendor, reply.rows, limit)
    BY <2>1, <2>2 DEF Attempted
  <2>4. ~ Refuses(Vendor, reply)
    BY <2>1 DEF Refuses
  <2>5. AsSent(reply.rows)
    BY <2>1
  <2>6. result.code \in {"ok", "malformed_data", "unexpected"} /\ Good(result.candles, reply.rows)
          /\ (result.code # "ok" => result.candles = <<>>)
    <3>1. CASE Vendor = "binance"
      BY <2>3, <2>5, <3>1, BinanceIsGood DEF FetchCandles
    <3>2. CASE Vendor = "kraken"
      <4>1. FirstEntry(KrakenResult) = {}
        BY DEF FirstEntry, KrakenResult
      <4>2. result = Failed("malformed_data")
        BY <2>3, <3>2, <4>1 DEF FetchCandles, KrakenCandles
      <4> HIDE DEF result
      <4>. QED BY <4>2, EmptyIsGood DEF Failed
    <3>3. CASE Vendor = "yahoo"
      BY <1>1, <2>3, <2>5, <3>3, YahooIsGood DEF FetchCandles
    <3>4. CASE Vendor = "twelvedata"
      BY <1>1, <2>3, <2>5, <3>4, TwelveDataIsGood DEF FetchCandles
    <3>. QED BY <1>1, <3>1, <3>2, <3>3, <3>4 DEF VendorNames
  <2>9. Answers(reply, result)
    <3> HIDE DEF result
    <3>. QED BY <2>1, <2>4, <2>5, <2>6 DEF Answers, Good, ProviderErrors
  <2>. QED BY <2>9
<1>. QED BY <1>2, <1>3, <1>4, <1>5 DEF Replies

\* The same of a ticker.
LEMMA QuotedIs ==
  ASSUME source \in Sources, NEW reply \in QuoteReplies(Vendor)
  PROVE  LET code == Quoted(Vendor, reply)
         IN /\ code \in ProviderErrors \cup {"ok", "unexpected", "raised"}
            /\ Refuses(Vendor, reply) /\ Vendor # "binance" => code \in Refusals
<1> DEFINE code == Quoted(Vendor, reply)
<1>1. Vendor \in VendorNames
  BY VendorIs
<1>2. CASE reply \in [kind : {"circuit", "overdue"}]
  <2>1. reply.kind \in {"circuit", "overdue"}
    BY <1>2
  <2>2. code \in {"provider_unavailable", "unexpected"}
    BY <2>1 DEF Quoted
  <2>3. ~ Refuses(Vendor, reply)
    BY <2>1 DEF Refuses
  <2>. QED BY <2>2, <2>3 DEF ProviderErrors
<1>3. CASE reply \in ErrorReplies(Vendor)
  <2>1. code = QuoteClient(Vendor, reply)
    BY <1>1, <1>3, ErrorCodes DEF Quoted
  <2>. QED BY <1>1, <1>3, <2>1, ErrorCodes
<1>4. CASE Vendor # "binance" /\ reply \in HttpReplies
  <2>1. code = QuoteClient(Vendor, reply)
    BY <1>1, <1>4, HttpCodes DEF Quoted
  <2>. QED BY <1>1, <1>4, <2>1, HttpCodes
<1>5. CASE reply \in [kind : {"quote"}, quote : Quotes(Vendor)]
  <2>1. reply.kind = "quote" /\ reply.quote \in Quotes(Vendor)
    BY <1>5
  <2>2. QuoteClient(Vendor, reply) = "ok"
    BY <1>1, <2>1 DEF QuoteClient, FetchTickersRaw, Request, FetchChart, FetchQuote, GetJson, VendorNames
  <2>3. code = ToTicker(Vendor, reply.quote)
    BY <2>1, <2>2 DEF Quoted
  <2>4. ~ Refuses(Vendor, reply)
    BY <2>1 DEF Refuses
  <2>5. ToTicker(Vendor, reply.quote) \in {"ok", "malformed_data", "raised"}
    BY <1>1, <2>1 DEF ToTicker, BinanceTickers, KrakenTicker, YahooTicker, TwelveDataTicker, Quotes, VendorNames
  <2>. QED BY <2>3, <2>4, <2>5 DEF ProviderErrors
<1>. QED BY <1>2, <1>3, <1>4, <1>5 DEF QuoteReplies

Statuses == {0, 200, 201, 400, 401, 429, 500, 502, 504}

\* Every error has a status, a refusal one of 400 and 401, and is not retried.
LEMMA StatusIs ==
  ASSUME NEW code
  PROVE  /\ HttpStatusFor(Wrapped(code)) \in Statuses \ {0, 200}
         /\ code \in Refusals => HttpStatusFor(Wrapped(code)) \in 400 .. 499 /\ ~ Retryable(code)
<1>1. Wrapped(code) \in ProviderErrors
  BY DEF Wrapped, ProviderErrors
<1>2. HttpStatusFor(Wrapped(code)) \in {400, 401, 429, 502, 504}
  BY <1>1 DEF HttpStatusFor, ProviderErrors
<1>3. ASSUME code \in Refusals PROVE HttpStatusFor(Wrapped(code)) \in {400, 401} /\ ~ Retryable(code)
  BY <1>3 DEF Wrapped, HttpStatusFor, ProviderErrors, Refusals, Retryable
<1>. QED BY <1>2, <1>3 DEF Statuses

----------------------------------------------------------------------------
\* The invariant.

\* The requests with candles appended and not yet announced, all of them.
Announcing == {r \in Requests : stage[r] = "publish"}

\* The entries of the stream a request published.
Sent(r) == {i \in Ids : stream[i].by = r}

\* What the stage of a request says of it.
Staged(r) ==
  /\ stage[r] = "new" => attempts[r] = 0 /\ quoted[r] = <<>>
  /\ stage[r] = "fetch" => op[r] = "sync"
  /\ stage[r] = "quote" => op[r] = "tickers"
  /\ stage[r] = "table" => op[r] \in {"sync", "raw", "query"}
  /\ stage[r] \in {"insert", "publish"} => op[r] \in {"sync", "raw"}
  /\ stage[r] = "read" => op[r] = "query"
  /\ stage[r] \in AtVendor => attempts[r] < Retries
  /\ stage[r] # "done" => answer[r] = 0

\* A request that was refused has ended.
Refused(r) == refused[r] /\ Vendor # "binance" => stage[r] = "done" /\ answer[r] \in 400 .. 499

\* The tickers got so far are of the first symbols asked for.
Quoting(r) ==
  /\ stage[r] = "quote" =>
       /\ Len(quoted[r]) < Len(Asked)
       /\ \A i \in 1 .. Len(quoted[r]) : quoted[r][i] = Asked[i]
       /\ Vendor = "binance" => quoted[r] = <<>>
  /\ op[r] = "tickers" /\ answer[r] = 200 => quoted[r] = IF Vendor = "binance" THEN <<>> ELSE Asked

\* The candles in the hand of a request.
Carried(r) ==
  r \in InHand \cup Announcing =>
    /\ fetched[r] # <<>>
    /\ \A i, j \in DOMAIN fetched[r] : i < j => fetched[r][i].at < fetched[r][j].at
    /\ \A c \in Range(fetched[r]) : c.version <= Version(c.at)

\* Those not appended yet are the newest the vendor offered.
Newest(r) ==
  r \in InHand =>
    /\ Range(fetched[r]) \subseteq offered[r]
    /\ \A c \in offered[r] : c.at <= Last(fetched[r]).at

\* A request announces each of its candles once.
Counted(r) ==
  /\ stage[r] \notin {"publish", "done"} => Sent(r) = {}
  /\ stage[r] = "publish" => Cardinality(Sent(r)) < Len(fetched[r])
  /\ stage[r] = "publish" /\ op[r] = "sync" => Sent(r) = {}

\* The stream's entries, and the consumer's batch.
StreamInv ==
  /\ stream \in Seq([by : Requests, candles : Seq(Candle)])
  /\ consumer \in {"ack", "retry"} => batch # <<>>

\* Candles that request p has or had: r, which has fetched, holds none older
\* unless p appended since.
NotOlder(r, p, cs) ==
  \A c \in Range(cs), d \in Range(fetched[r]) : c.at = d.at => d.version >= c.version \/ p \in passed[r]

\* They are in the table, or something later, or what a request fetched before p appended.
Stored(p, cs) ==
  \A c \in Range(cs) :
    LET row == table[c.at]
    IN row # NoRow /\ (row.version >= c.version \/ p \in passed[row.by])

Announcements ==
  /\ \A i \in Ids :
       /\ \A c \in Range(stream[i].candles) : c.version <= Version(c.at)
       /\ \A r \in InHand : NotOlder(r, stream[i].by, stream[i].candles)
       /\ Stored(stream[i].by, stream[i].candles)
  /\ \A p \in Announcing :
       /\ \A r \in InHand : NotOlder(r, p, fetched[p])
       /\ Stored(p, fetched[p])

RequestInv(r) == Staged(r) /\ Refused(r) /\ Quoting(r) /\ Carried(r) /\ Newest(r) /\ Counted(r)

IngestInv == TypeOK /\ StreamInv /\ (\A r \in Requests : RequestInv(r)) /\ Announcements

----------------------------------------------------------------------------
\* The parts of the invariant that are about the other requests, and about what was
\* announced before.

\* A step that is none of request q's.
Same(q) ==
  /\ stage'[q] = stage[q] /\ op'[q] = op[q] /\ attempts'[q] = attempts[q]
  /\ fetched'[q] = fetched[q] /\ quoted'[q] = quoted[q] /\ answer'[q] = answer[q]
  /\ refused'[q] = refused[q] /\ offered'[q] = offered[q]

\* No step makes a bar younger.
VersionsGrow == \A bar \in Bars : Version(bar) \in Int /\ Version(bar)' \in Int /\ Version(bar) <= Version(bar)'

\* Time only adds to what is known of a bar.
LEMMA NowGrows ==
  ASSUME TypeOK, now' \in {now, now + 1}
  PROVE  VersionsGrow
<1> SUFFICES ASSUME NEW bar \in Bars
             PROVE  Version(bar) \in Int /\ Version(bar)' \in Int /\ Version(bar) <= Version(bar)'
  BY DEF VersionsGrow
<1>1. (bar - 1) * BarTicks \in Int /\ BarTicks \in Nat /\ now \in Int /\ now' \in Int
  <2>1. bar \in Nat /\ BarTicks \in Nat
    BY BarsAre, IngestAssumption
  <2>2. bar - 1 \in Int
    BY <2>1
  <2>. QED BY <2>1, <2>2 DEF TypeOK
<1>2. /\ Version(bar) = IF now - (bar - 1) * BarTicks < BarTicks THEN now - (bar - 1) * BarTicks ELSE BarTicks
      /\ Version(bar)' = IF now' - (bar - 1) * BarTicks < BarTicks THEN now' - (bar - 1) * BarTicks ELSE BarTicks
  BY DEF Version
<1>3. ASSUME NEW p \in Int, NEW t \in Int, NEW u \in {t, t + 1}, NEW b \in Nat
      PROVE  LET v == IF t - p < b THEN t - p ELSE b
                 w == IF u - p < b THEN u - p ELSE b
             IN v \in Int /\ w \in Int /\ v <= w
  OBVIOUS
<1> DEFINE p == (bar - 1) * BarTicks
<1> HIDE DEF p
<1>4. /\ p \in Int
      /\ Version(bar) = IF now - p < BarTicks THEN now - p ELSE BarTicks
      /\ Version(bar)' = IF now' - p < BarTicks THEN now' - p ELSE BarTicks
  BY <1>1, <1>2 DEF p
<1>. QED BY <1>1, <1>3, <1>4

\* What is known of a request outlasts the steps of the others.
LEMMA OthersKept ==
  ASSUME IngestInv, source' = source, VersionsGrow,
         NEW q \in Requests, RequestInv(q), Same(q), Sent(q)' = Sent(q)
  PROVE  RequestInv(q)'
<1>1. Vendor' = Vendor
  BY DEF Vendor
<1>2. /\ q \in InHand <=> q \in InHand'
      /\ q \in Announcing <=> q \in Announcing'
  BY DEF Same, InHand, Announcing
<1>3. Staged(q)' /\ Refused(q)' /\ Quoting(q)'
  BY <1>1 DEF RequestInv, Same, Staged, Refused, Quoting
<1>4. Carried(q)'
  <2> SUFFICES ASSUME q \in InHand \cup Announcing, NEW c \in Range(fetched[q])
               PROVE  c.version <= Version(c.at)'
    BY <1>2 DEF RequestInv, Same, Carried
  <2>1. c \in Candle
    BY RangeOfSeq DEF IngestInv, TypeOK
  <2>2. c.at \in Bars /\ c.version \in Int /\ c.version <= Version(c.at)
    BY <2>1, IngestAssumption DEF Candle, RequestInv, Carried
  <2>3. Version(c.at) \in Int /\ Version(c.at)' \in Int /\ Version(c.at) <= Version(c.at)'
    BY <2>2 DEF VersionsGrow
  <2>. QED BY <2>2, <2>3
<1>5. Newest(q)'
  BY <1>2 DEF RequestInv, Same, Newest
<1>6. Counted(q)'
  BY DEF RequestInv, Same, Counted
<1>. QED BY <1>3, <1>4, <1>5, <1>6 DEF RequestInv

\* A step that neither fetches nor appends nor announces.
LEMMA AnnouncementsKept ==
  ASSUME IngestInv, VersionsGrow, UNCHANGED <<stream, table, passed>>,
         InHand' \subseteq InHand, Announcing' \subseteq Announcing,
         \A r \in InHand' \cup Announcing' : fetched'[r] = fetched[r]
  PROVE  Announcements'
<1>1. ASSUME NEW i \in Ids, NEW c \in Range(stream[i].candles) PROVE c.version <= Version(c.at)'
  <2>1. c \in Candle
    <3>1. stream[i].candles \in Seq(Candle)
      <4>1. stream[i] \in [by : Requests, candles : Seq(Candle)]
        BY ElementOfSeq, LenProperties DEF IngestInv, StreamInv, Ids
      <4>. QED BY <4>1
    <3>. QED BY <3>1, RangeOfSeq
  <2>2. c.at \in Bars /\ c.version \in Int /\ c.version <= Version(c.at)
    BY <2>1, IngestAssumption DEF Candle, IngestInv, Announcements
  <2>3. Version(c.at) \in Int /\ Version(c.at)' \in Int /\ Version(c.at) <= Version(c.at)'
    BY <2>2 DEF VersionsGrow
  <2>. QED BY <2>2, <2>3
<1>2. Ids' = Ids
  BY DEF Ids
<1>3. \A r \in InHand', i \in Ids : NotOlder(r, stream[i].by, stream[i].candles)'
  BY DEF IngestInv, Announcements, NotOlder
<1>4. \A i \in Ids : Stored(stream[i].by, stream[i].candles)'
  BY DEF IngestInv, Announcements, Stored
<1>5. \A p \in Announcing', r \in InHand' : NotOlder(r, p, fetched[p])'
  BY DEF IngestInv, Announcements, NotOlder
<1>6. \A p \in Announcing' : Stored(p, fetched[p])'
  BY DEF IngestInv, Announcements, Stored
<1>. QED BY <1>1, <1>2, <1>3, <1>4, <1>5, <1>6 DEF Announcements

----------------------------------------------------------------------------
\* Steps of one request that neither fetch nor append nor announce.

\* A step that leaves table and stream alone disturbs no announcement.
LEMMA QuietKeeps ==
  ASSUME IngestInv, NEW r \in Requests, UNCHANGED <<source, now, stream, table, passed>>,
         \A q \in Requests \ {r} : Same(q),
         r \in InHand' => r \in InHand /\ fetched'[r] = fetched[r],
         r \in Announcing' => r \in Announcing /\ fetched'[r] = fetched[r],
         RequestInv(r)'
  PROVE  (\A q \in Requests : RequestInv(q)') /\ Announcements'
<1>1. VersionsGrow
  BY NowGrows DEF IngestInv
<1>2. ASSUME NEW q \in Requests \ {r} PROVE RequestInv(q)'
  <2>1. Sent(q)' = Sent(q)
    BY DEF Sent, Ids
  <2>. QED BY <1>1, <2>1, OthersKept DEF IngestInv
<1>3. Announcements'
  <2>1. InHand' \subseteq InHand /\ Announcing' \subseteq Announcing
    BY DEF Same, InHand, Announcing
  <2>2. \A q \in InHand' \cup Announcing' : fetched'[q] = fetched[q]
    BY DEF Same, InHand, Announcing
  <2>. QED BY <1>1, <2>1, <2>2, AnnouncementsKept
<1>. QED BY <1>2, <1>3

\* Steps that leave the stream's variables alone.
LEMMA StreamSame ==
  ASSUME IngestInv, UNCHANGED streamVars
  PROVE  StreamTypeOK' /\ StreamInv' /\ \A r \in Requests : Sent(r)' = Sent(r)
<1>1. UNCHANGED <<stream, group, delivered, batch, consumer, acked, dropped, mishaps>> /\ Ids' = Ids
  BY DEF streamVars, reading, Ids
<1>2. StreamTypeOK'
  BY <1>1 DEF IngestInv, TypeOK, StreamTypeOK
<1>3. StreamInv'
  BY <1>1 DEF IngestInv, StreamInv
<1>4. \A r \in Requests : Sent(r)' = Sent(r)
  BY <1>1 DEF Sent
<1>. QED BY <1>2, <1>3, <1>4

\* A request that goes on has no answer yet.
LEMMA GoesOn ==
  ASSUME IngestInv, NEW r \in Requests, stage[r] # "done", NEW s, GoTo(r, s)
  PROVE  stage' = [stage EXCEPT ![r] = s] /\ answer' = [answer EXCEPT ![r] = 0]
<1>1. answer[r] = 0 /\ answer \in [Requests -> Statuses]
  BY DEF IngestInv, RequestInv, Staged, TypeOK, Statuses
<1>. QED BY <1>1 DEF GoTo

\* The steps that begin a request of which the answer is not known yet.
LEMMA BeginKeeps ==
  ASSUME IngestInv, NEW r \in Requests, Sync(r) \/ Query(r) \/ FetchTickers(r)
  PROVE  IngestInv'
<1>1. /\ stage[r] = "new"
      /\ UNCHANGED <<source, now, table, initialized, passed, attempts, fetched, quoted, refused, offered>>
      /\ UNCHANGED streamVars
  BY DEF Sync, Query, FetchTickers, store
<1>2. PICK kind \in {"sync", "query", "tickers"}, to \in {"fetch", "done", "read", "table", "quote"}, status \in {0, 400} :
        /\ op' = [op EXCEPT ![r] = kind]
        /\ stage' = [stage EXCEPT ![r] = to]
        /\ answer' = [answer EXCEPT ![r] = status]
        /\ to = "done" \/ status = 0
        /\ to = "fetch" => kind = "sync"
        /\ to = "quote" => kind = "tickers"
        /\ to \in {"read", "table"} => kind = "query"
  <2>1. CASE Sync(r)
    <3>1. CASE GoTo(r, "fetch")
      BY <1>1, <2>1, <3>1, GoesOn DEF Sync
    <3>2. CASE Ends(r, HttpStatusFor("unsupported_capability"))
      <4>1. HttpStatusFor("unsupported_capability") = 400
        BY DEF HttpStatusFor
      <4>2. op' = [op EXCEPT ![r] = "sync"]
        BY <2>1 DEF Sync
      <4>3. stage' = [stage EXCEPT ![r] = "done"] /\ answer' = [answer EXCEPT ![r] = 400]
        BY <3>2, <4>1 DEF Ends
      <4>. QED BY <4>2, <4>3
    <3>. QED BY <2>1, <3>1, <3>2 DEF Sync
  <2>2. CASE Query(r)
    <3>1. PICK to \in {"read", "table"} : GoTo(r, to)
      BY <2>2 DEF Query
    <3>2. stage' = [stage EXCEPT ![r] = to] /\ answer' = [answer EXCEPT ![r] = 0]
      BY <1>1, <3>1, GoesOn
    <3>3. op' = [op EXCEPT ![r] = "query"]
      BY <2>2 DEF Query
    <3>4. CASE to = "read"
      BY <3>2, <3>3, <3>4
    <3>5. CASE to = "table"
      BY <3>2, <3>3, <3>5
    <3>. QED BY <3>4, <3>5
  <2>3. CASE FetchTickers(r)
    BY <1>1, <2>3, GoesOn DEF FetchTickers
  <2>. QED BY <2>1, <2>2, <2>3
<1>3. /\ op'[r] = kind /\ stage'[r] = to /\ answer'[r] = status
      /\ \A q \in Requests \ {r} : Same(q)
  BY <1>1, <1>2 DEF IngestInv, TypeOK, Same
<1>4. TypeOK'
  <2>1. StreamTypeOK'
    BY <1>1, StreamSame
  <2>2. /\ op' \in [Requests -> {"none", "sync", "raw", "query", "tickers"}]
        /\ stage' \in [Requests -> Waiting \cup {"new", "done"}]
        /\ answer' \in [Requests -> {0, 200, 201, 400, 401, 429, 500, 502, 504}]
    BY <1>2 DEF IngestInv, TypeOK, Waiting, AtVendor
  <2>. QED BY <1>1, <2>1, <2>2 DEF IngestInv, TypeOK
<1>5. RequestInv(r)'
  <2>1. stage[r] = "new" /\ attempts[r] = 0 /\ quoted[r] = <<>>
    BY <1>1 DEF IngestInv, RequestInv, Staged
  <2>2. Staged(r)'
    BY <1>1, <1>2, <1>3, <2>1, IngestAssumption DEF Staged, AtVendor
  <2>3. Refused(r)'
    BY <1>1, <1>2, <1>3 DEF IngestInv, RequestInv, Refused, Vendor
  <2>4. Quoting(r)'
    <3>1. Len(<<>>) = 0 /\ Len(Asked) \in Nat /\ Len(Asked) # 0
      BY IngestAssumption, EmptySeq, LenProperties
    <3>. QED BY <1>1, <1>3, <2>1, <3>1 DEF Quoting
  <2>5. r \notin InHand' /\ r \notin Announcing'
    BY <1>2, <1>3 DEF InHand, Announcing
  <2>6. Counted(r)'
    <3>1. Sent(r)' = Sent(r) /\ Sent(r) = {}
      BY <1>1, StreamSame DEF IngestInv, RequestInv, Counted
    <3>. QED BY <1>2, <1>3, <3>1 DEF Counted
  <2>. QED BY <2>2, <2>3, <2>4, <2>5, <2>6 DEF RequestInv, Carried, Newest
<1>6. r \notin InHand' /\ r \notin Announcing'
  BY <1>2, <1>3 DEF InHand, Announcing
<1>7. stream' = stream /\ StreamInv'
  BY <1>1, StreamSame DEF streamVars
<1>. QED BY <1>1, <1>3, <1>4, <1>5, <1>6, <1>7, QuietKeeps DEF IngestInv

\* An entry is by a request and carries candles.
LEMMA EntriesAre ==
  ASSUME IngestInv, NEW i \in Ids
  PROVE  stream[i].by \in Requests /\ stream[i].candles \in Seq(Candle)
<1> DEFINE E == [by : Requests, candles : Seq(Candle)]
<1>1. stream \in Seq(E)
  BY DEF IngestInv, StreamInv
<1> HIDE DEF E
<1>2. stream[i] \in E
  BY <1>1, ElementOfSeq, LenProperties DEF Ids
<1>. QED BY <1>2 DEF E

\* Of a request that has ended only its answer matters.
LEMMA Ended ==
  ASSUME NEW r \in Requests, stage'[r] = "done",
         refused'[r] /\ Vendor' # "binance" => answer'[r] \in 400 .. 499,
         op'[r] = "tickers" /\ answer'[r] = 200 => quoted'[r] = IF Vendor' = "binance" THEN <<>> ELSE Asked
  PROVE  RequestInv(r)' /\ r \notin InHand' /\ r \notin Announcing'
<1>1. r \notin InHand' /\ r \notin Announcing'
  BY DEF InHand, Announcing
<1>2. Staged(r)' /\ Refused(r)' /\ Quoting(r)' /\ Counted(r)'
  BY DEF Staged, Refused, Quoting, Counted, AtVendor
<1>. QED BY <1>1, <1>2 DEF RequestInv, Carried, Newest

LEMMA CreateTableKeeps ==
  ASSUME IngestInv, NEW r \in Requests, CreateTable(r)
  PROVE  IngestInv'
<1> DEFINE to == IF op[r] = "query" THEN "read" ELSE "insert"
<1>1. /\ stage[r] = "table" /\ initialized' = TRUE
      /\ UNCHANGED <<source, now, table, passed, op, attempts, fetched, quoted, refused, offered>>
      /\ UNCHANGED streamVars
      /\ stage' = [stage EXCEPT ![r] = to] /\ answer' = [answer EXCEPT ![r] = 0]
  BY GoesOn DEF CreateTable
<1>2. /\ stage'[r] = to /\ answer'[r] = 0 /\ op[r] \in {"sync", "raw", "query"}
      /\ \A q \in Requests \ {r} : Same(q)
  BY <1>1 DEF IngestInv, RequestInv, Staged, TypeOK, Same
<1>3. TypeOK'
  <2>1. StreamTypeOK'
    BY <1>1, StreamSame
  <2>2. stage' \in [Requests -> Waiting \cup {"new", "done"}]
    <3>1. to \in Waiting
      BY DEF Waiting
    <3>. HIDE DEF to
    <3>. QED BY <1>1, <3>1 DEF IngestInv, TypeOK
  <2>3. answer' \in [Requests -> {0, 200, 201, 400, 401, 429, 500, 502, 504}]
    BY <1>1 DEF IngestInv, TypeOK
  <2>. QED BY <1>1, <2>1, <2>2, <2>3 DEF IngestInv, TypeOK
<1>4. /\ r \in InHand' => r \in InHand
      /\ r \notin Announcing'
  BY <1>1, <1>2 DEF InHand, Announcing
<1>5. RequestInv(r)'
  <2>1. Staged(r)' /\ Quoting(r)'
    BY <1>1, <1>2 DEF Staged, Quoting, AtVendor
  <2>2. Refused(r)'
    BY <1>1 DEF IngestInv, RequestInv, Refused, Vendor
  <2>3. Carried(r)' /\ Newest(r)'
    BY <1>1, <1>4 DEF IngestInv, RequestInv, Carried, Newest, Version
  <2>4. Sent(r)' = Sent(r) /\ Sent(r) = {}
    BY <1>1, StreamSame DEF IngestInv, RequestInv, Counted
  <2>5. Counted(r)'
    BY <1>1, <1>2, <2>4 DEF Counted
  <2>. QED BY <2>1, <2>2, <2>3, <2>5 DEF RequestInv
<1>6. stream' = stream /\ StreamInv'
  BY <1>1, StreamSame DEF streamVars
<1>. QED BY <1>1, <1>2, <1>3, <1>4, <1>5, <1>6, QuietKeeps DEF IngestInv

\* The rows found are candles.
LEMMA QueryRangeIs ==
  ASSUME TypeOK, NEW start \in Bars, NEW end \in Bars
  PROVE  QueryRange(start, end) \in Seq(Candle)
<1> DEFINE found == {bar \in start .. end : table[bar] # NoRow}
           a == Ascending(found)
<1>1. start .. end \subseteq Bars /\ Bars \subseteq Int /\ IsFiniteSet(start .. end)
  <2>1. start \in Nat /\ end \in Nat
    BY BarsAre
  <2>. QED BY <2>1, BarsAre, FS_Interval DEF Bars
<1>2. found \subseteq Bars /\ found \subseteq Int /\ IsFiniteSet(found)
  <2>1. found \in SUBSET (start .. end)
    OBVIOUS
  <2> HIDE DEF found
  <2>. QED BY <1>1, <2>1, FS_Subset
<1>3. \A bar \in found : table[bar] \in Row
  BY <1>2 DEF TypeOK
<1>4. Cardinality(found) \in Nat /\ a \in [1 .. Cardinality(found) -> found]
  <2> HIDE DEF found
  <2>. QED BY <1>2, AscendingIs
<1>5. QueryRange(start, end) = [i \in 1 .. Cardinality(found) |-> StoredCandle(table[a[i]])]
  BY <1>4 DEF QueryRange
<1> HIDE DEF found, a
<1>6. \A i \in 1 .. Cardinality(found) : StoredCandle(table[a[i]]) \in Candle
  <2> SUFFICES ASSUME NEW i \in 1 .. Cardinality(found) PROVE StoredCandle(table[a[i]]) \in Candle
    OBVIOUS
  <2>1. table[a[i]] \in Row
    BY <1>3, <1>4
  <2>. QED BY <2>1 DEF Row, Candle, StoredCandle
<1>. QED BY <1>4, <1>5, <1>6

LEMMA ReadRangeKeeps ==
  ASSUME IngestInv, NEW r \in Requests, ReadRange(r)
  PROVE  IngestInv'
<1>1. /\ stage[r] = "read"
      /\ UNCHANGED <<source, now, table, initialized, passed, op, attempts, quoted, refused, offered>>
      /\ UNCHANGED streamVars
      /\ stage' = [stage EXCEPT ![r] = "done"] /\ answer' = [answer EXCEPT ![r] = 200]
  BY DEF ReadRange, Ends, store
<1>2. PICK cs \in Seq(Candle) : fetched' = [fetched EXCEPT ![r] = cs]
  <2>1. PICK start \in Bars, end \in Bars : fetched' = [fetched EXCEPT ![r] = QueryRange(start, end)]
    BY DEF ReadRange
  <2>. QED BY <2>1, QueryRangeIs DEF IngestInv
<1>3. stage'[r] = "done" /\ op'[r] = "query" /\ answer'[r] = 200 /\ \A q \in Requests \ {r} : Same(q)
  BY <1>1, <1>2 DEF IngestInv, RequestInv, Staged, TypeOK, Same
<1>4. TypeOK'
  <2>1. StreamTypeOK'
    BY <1>1, StreamSame
  <2>2. /\ stage' \in [Requests -> Waiting \cup {"new", "done"}]
        /\ answer' \in [Requests -> {0, 200, 201, 400, 401, 429, 500, 502, 504}]
        /\ fetched' \in [Requests -> Seq(Candle)]
    BY <1>1, <1>2 DEF IngestInv, TypeOK, Waiting, AtVendor
  <2>. QED BY <1>1, <2>1, <2>2 DEF IngestInv, TypeOK
<1>5. RequestInv(r)' /\ r \notin InHand' /\ r \notin Announcing'
  <2>1. ~ (refused'[r] /\ Vendor' # "binance")
    BY <1>1 DEF IngestInv, RequestInv, Refused, Vendor
  <2>. QED BY <1>3, <2>1, Ended
<1>6. stream' = stream /\ StreamInv'
  BY <1>1, StreamSame DEF streamVars
<1>. QED BY <1>1, <1>3, <1>4, <1>5, <1>6, QuietKeeps DEF IngestInv

\* A mishap touches nothing else of the stream.
LEMMA MishapIs ==
  ASSUME IngestInv, Mishap, UNCHANGED <<stream, reading>>
  PROVE  StreamTypeOK' /\ StreamInv' /\ \A r \in Requests : Sent(r)' = Sent(r)
<1>1. mishaps' \in 0 .. MaxMishaps
  BY StreamAssumption DEF IngestInv, TypeOK, StreamTypeOK, Mishap
<1>2. UNCHANGED <<stream, group, delivered, batch, consumer, acked, dropped>>
  BY DEF reading
<1>3. Ids' = Ids
  BY DEF Ids
<1>4. StreamTypeOK'
  BY <1>1, <1>2, <1>3 DEF IngestInv, TypeOK, StreamTypeOK
<1>5. StreamInv'
  BY <1>2 DEF IngestInv, StreamInv
<1>6. \A r \in Requests : Sent(r)' = Sent(r)
  BY <1>3 DEF Sent
<1>. QED BY <1>4, <1>5, <1>6

LEMMA CallFailsKeeps ==
  ASSUME IngestInv, NEW r \in Requests, CallFails(r)
  PROVE  IngestInv'
<1>1. /\ stage[r] \in Waiting \ AtVendor
      /\ UNCHANGED <<source, now, table, initialized, passed, op, attempts, fetched, quoted, refused, offered>>
      /\ UNCHANGED <<stream, reading>> /\ mishaps < MaxMishaps /\ mishaps' = mishaps + 1
      /\ stage' = [stage EXCEPT ![r] = "done"] /\ answer' = [answer EXCEPT ![r] = 500]
  BY DEF CallFails, Ends, Mishap, store
<1>2. stage'[r] = "done" /\ answer'[r] = 500 /\ stage[r] # "done" /\ \A q \in Requests \ {r} : Same(q)
  BY <1>1 DEF IngestInv, TypeOK, Same, Waiting, AtVendor
<1>3. StreamTypeOK' /\ StreamInv'
  <2>1. Mishap /\ UNCHANGED <<stream, reading>>
    BY <1>1 DEF Mishap
  <2>. QED BY <2>1, MishapIs
<1>4. TypeOK'
  <2>1. /\ stage' \in [Requests -> Waiting \cup {"new", "done"}]
        /\ answer' \in [Requests -> {0, 200, 201, 400, 401, 429, 500, 502, 504}]
    BY <1>1, SMTT(20) DEF IngestInv, TypeOK
  <2>. QED BY <1>1, <1>3, <2>1 DEF IngestInv, TypeOK
<1>5. RequestInv(r)' /\ r \notin InHand' /\ r \notin Announcing'
  <2>1. ~ (refused'[r] /\ Vendor' # "binance")
    BY <1>1, <1>2 DEF IngestInv, RequestInv, Refused, Vendor
  <2>. QED BY <1>2, <2>1, Ended
<1>. QED BY <1>1, <1>2, <1>3, <1>4, <1>5, QuietKeeps DEF IngestInv

\* A failed attempt that is not the last leaves room for another.
LEMMA RetryIs ==
  ASSUME TypeOK, NEW r \in Requests, NEW code
  PROVE  /\ attempts[r] \in Nat /\ Retries \in Nat \ {0}
         /\ MayRetry(r, code) => Retryable(code) /\ attempts[r] + 1 < Retries
  BY IngestAssumption DEF TypeOK, MayRetry

LEMMA QuoteKeeps ==
  ASSUME IngestInv, NEW r \in Requests, Quote(r)
  PROVE  IngestInv'
<1>1. /\ stage[r] = "quote" /\ op[r] = "tickers" /\ attempts[r] < Retries
      /\ UNCHANGED <<source, now, table, initialized, passed, op, fetched, offered>>
      /\ UNCHANGED streamVars
  BY DEF Quote, store, IngestInv, RequestInv, Staged, AtVendor
<1>2. PICK reply \in QuoteReplies(Vendor) :
        LET code == Quoted(Vendor, reply)
        IN /\ attempts' = [attempts EXCEPT ![r] = IF code = "ok" THEN 0 ELSE @ + 1]
           /\ refused' = [refused EXCEPT ![r] = Refuses(Vendor, reply)]
           /\ \/ /\ code = "ok"
                 /\ \/ Vendor = "binance" /\ Ends(r, 200) /\ UNCHANGED quoted
                    \/ /\ Vendor # "binance"
                       /\ quoted' = [quoted EXCEPT ![r] = Append(@, Asked[Len(@) + 1])]
                       /\ IF Len(quoted'[r]) = Len(Asked) THEN Ends(r, 200) ELSE UNCHANGED <<stage, answer>>
              \/ MayRetry(r, code) /\ UNCHANGED <<stage, answer, quoted>>
              \/ /\ code # "ok" /\ ~MayRetry(r, code)
                 /\ quoted' = [quoted EXCEPT ![r] = <<>>]
                 /\ Ends(r, IF code = "raised" THEN 500 ELSE HttpStatusFor(Wrapped(code)))
  BY DEF Quote
<1> DEFINE code == Quoted(Vendor, reply)
           refusal == Refuses(Vendor, reply) /\ Vendor # "binance"
<1>3. /\ code \in ProviderErrors \cup {"ok", "unexpected", "raised"}
      /\ refusal => code \in Refusals
  BY QuotedIs DEF IngestInv, TypeOK
<1>4. /\ attempts' = [attempts EXCEPT ![r] = IF code = "ok" THEN 0 ELSE @ + 1]
      /\ refused' = [refused EXCEPT ![r] = Refuses(Vendor, reply)]
  BY <1>2
<1>5. /\ attempts' \in [Requests -> 0 .. Retries]
      /\ refused' \in [Requests -> BOOLEAN]
      /\ refused'[r] /\ Vendor' # "binance" <=> refusal
      /\ attempts'[r] = IF code = "ok" THEN 0 ELSE attempts[r] + 1
  <2>1. attempts \in [Requests -> 0 .. Retries] /\ refused \in [Requests -> BOOLEAN] /\ Vendor' = Vendor
    BY <1>1 DEF IngestInv, TypeOK, Vendor
  <2>2. Refuses(Vendor, reply) \in BOOLEAN
    BY DEF Refuses
  <2>3. attempts[r] + 1 \in 0 .. Retries /\ 0 \in 0 .. Retries
    BY <1>1, <2>1, RetryIs DEF IngestInv
  <2>. QED BY <1>4, <2>1, <2>2, <2>3
<1>6. /\ quoted[r] \in Seq(Range(Asked)) /\ Len(quoted[r]) \in Nat /\ Len(quoted[r]) < Len(Asked)
      /\ \A i \in 1 .. Len(quoted[r]) : quoted[r][i] = Asked[i]
      /\ Vendor = "binance" => quoted[r] = <<>>
  BY <1>1, LenProperties DEF IngestInv, TypeOK, RequestInv, Quoting
<1> DEFINE more == Append(quoted[r], Asked[Len(quoted[r]) + 1])
<1>7. /\ more \in Seq(Range(Asked)) /\ Len(more) = Len(quoted[r]) + 1
      /\ \A i \in 1 .. Len(more) : more[i] = Asked[i]
      /\ Len(more) <= Len(Asked)
      /\ Len(more) = Len(Asked) => more = Asked
  <2>1. Asked \in Seq(Range(Asked)) /\ Len(Asked) \in Nat /\ DOMAIN Asked = 1 .. Len(Asked)
    BY IngestAssumption, SeqOfRange, LenProperties
  <2>2. Len(quoted[r]) + 1 \in 1 .. Len(Asked)
    BY <1>6, <2>1
  <2>3. Asked[Len(quoted[r]) + 1] \in Range(Asked)
    BY <2>1, <2>2 DEF Range
  <2>4. /\ more \in Seq(Range(Asked)) /\ Len(more) = Len(quoted[r]) + 1
        /\ \A i \in 1 .. Len(quoted[r]) : more[i] = quoted[r][i]
        /\ more[Len(quoted[r]) + 1] = Asked[Len(quoted[r]) + 1]
    BY <1>6, <2>3, AppendProperties
  <2> HIDE DEF more
  <2>5. ASSUME NEW i \in 1 .. Len(more) PROVE more[i] = Asked[i]
    <3>1. i \in 1 .. Len(quoted[r]) \/ i = Len(quoted[r]) + 1
      BY <1>6, <2>4
    <3>. QED BY <1>6, <2>4, <3>1
  <2>6. Len(more) = Len(Asked) => more = Asked
    BY <2>1, <2>4, <2>5, SeqEqual
  <2>7. Len(more) <= Len(Asked)
    BY <1>6, <2>1, <2>2, <2>4
  <2>8. \A i \in 1 .. Len(more) : more[i] = Asked[i]
    BY <2>5
  <2>. QED BY <2>4, <2>6, <2>7, <2>8
<1> HIDE DEF code, refusal, more
<1>8. \/ /\ ~ refusal /\ Ends(r, 200)
         /\ quoted' = IF Vendor = "binance" THEN quoted ELSE [quoted EXCEPT ![r] = Asked]
      \/ /\ ~ refusal /\ Vendor # "binance" /\ code = "ok" /\ quoted' = [quoted EXCEPT ![r] = more]
         /\ Len(more) # Len(Asked) /\ UNCHANGED <<stage, answer>>
      \/ /\ ~ refusal /\ attempts[r] + 1 < Retries /\ UNCHANGED <<stage, answer, quoted>>
      \/ /\ quoted' = [quoted EXCEPT ![r] = <<>>]
         /\ \E status \in Statuses \ {0, 200} :
              Ends(r, status) /\ (refusal => status \in 400 .. 499)
  <2>1. code = "ok" => ~ refusal
    BY <1>3 DEF Refusals
  <2>2. CASE code = "ok" /\ Vendor = "binance" /\ Ends(r, 200) /\ UNCHANGED quoted
    BY <2>1, <2>2
  <2>3. CASE /\ code = "ok" /\ Vendor # "binance" /\ quoted' = [quoted EXCEPT ![r] = more]
             /\ IF Len(quoted'[r]) = Len(Asked) THEN Ends(r, 200) ELSE UNCHANGED <<stage, answer>>
    <3>1. quoted'[r] = more
      BY <2>3 DEF IngestInv, TypeOK
    <3>2. CASE Len(more) = Len(Asked)
      BY <1>7, <2>1, <2>3, <3>1, <3>2
    <3>3. CASE Len(more) # Len(Asked)
      BY <2>1, <2>3, <3>1, <3>3
    <3>. QED BY <3>2, <3>3
  <2>4. CASE MayRetry(r, code) /\ UNCHANGED <<stage, answer, quoted>>
    <3>1. Retryable(code) /\ attempts[r] + 1 < Retries
      BY <2>4, RetryIs DEF IngestInv
    <3>2. ~ refusal
      BY <1>3, <3>1, StatusIs
    <3>. QED BY <2>4, <3>1, <3>2
  <2>5. CASE /\ quoted' = [quoted EXCEPT ![r] = <<>>]
             /\ Ends(r, IF code = "raised" THEN 500 ELSE HttpStatusFor(Wrapped(code)))
    <3>1. CASE code = "raised"
      <4>1. ~ refusal
        BY <1>3, <3>1 DEF Refusals
      <4>. QED BY <2>5, <3>1, <4>1 DEF Statuses
    <3>2. CASE code # "raised"
      BY <1>3, <2>5, <3>2, StatusIs
    <3>. QED BY <3>1, <3>2
  <2>. QED BY <1>2, <2>2, <2>3, <2>4, <2>5 DEF code, more
<1>9. /\ \A q \in Requests \ {r} : Same(q)
      /\ r \notin InHand' /\ r \notin Announcing'
      /\ stage' \in [Requests -> Waiting \cup {"new", "done"}]
      /\ answer' \in [Requests -> {0, 200, 201, 400, 401, 429, 500, 502, 504}]
      /\ quoted' \in [Requests -> Seq(Range(Asked))]
  <2>1. /\ stage' \in [Requests -> Waiting \cup {"new", "done"}]
        /\ answer' \in [Requests -> {0, 200, 201, 400, 401, 429, 500, 502, 504}]
        /\ stage'[r] \in {"quote", "done"}
        /\ \A q \in Requests \ {r} : stage'[q] = stage[q] /\ answer'[q] = answer[q]
    <3>1. UNCHANGED <<stage, answer>> \/ \E status \in Statuses : Ends(r, status)
      BY <1>8 DEF Statuses
    <3>2. /\ stage \in [Requests -> Waiting \cup {"new", "done"}] /\ stage[r] = "quote"
          /\ answer \in [Requests -> {0, 200, 201, 400, 401, 429, 500, 502, 504}]
      BY <1>1, SMTT(20) DEF IngestInv, TypeOK
    <3>. QED BY <3>1, <3>2 DEF Ends, Statuses
  <2>2. quoted' \in [Requests -> Seq(Range(Asked))] /\ \A q \in Requests \ {r} : quoted'[q] = quoted[q]
    <3>1. Asked \in Seq(Range(Asked)) /\ <<>> \in Seq(Range(Asked))
      BY IngestAssumption, SeqOfRange, EmptySeq
    <3>2. quoted \in [Requests -> Seq(Range(Asked))]
      BY DEF IngestInv, TypeOK
    <3>3. \/ quoted' = quoted
          \/ \E s \in Seq(Range(Asked)) : quoted' = [quoted EXCEPT ![r] = s]
      BY <1>7, <1>8, <3>1
    <3>. QED BY <3>2, <3>3
  <2>3. \A q \in Requests \ {r} : attempts'[q] = attempts[q] /\ refused'[q] = refused[q]
    BY <1>4 DEF IngestInv, TypeOK
  <2>4. \A q \in Requests \ {r} : Same(q)
    BY <1>1, <2>1, <2>2, <2>3 DEF Same
  <2>5. r \notin InHand' /\ r \notin Announcing'
    BY <2>1 DEF InHand, Announcing
  <2>. QED BY <2>1, <2>2, <2>4, <2>5
<1>10. TypeOK'
  <2>1. StreamTypeOK'
    BY <1>1, StreamSame
  <2>. QED BY <1>1, <1>5, <1>9, <2>1 DEF IngestInv, TypeOK
<1>11. RequestInv(r)'
  <2>0. Vendor' = Vendor /\ Asked = Asked
    BY <1>1 DEF Vendor
  <2>1. CASE /\ ~ refusal /\ Ends(r, 200)
             /\ quoted' = IF Vendor = "binance" THEN quoted ELSE [quoted EXCEPT ![r] = Asked]
    <3>1. stage'[r] = "done" /\ quoted'[r] = IF Vendor = "binance" THEN <<>> ELSE Asked
      BY <1>6, <2>1 DEF IngestInv, TypeOK, Ends
    <3>. QED BY <1>5, <2>0, <2>1, <3>1, Ended
  <2>2. CASE \/ /\ ~ refusal /\ Vendor # "binance" /\ code = "ok" /\ quoted' = [quoted EXCEPT ![r] = more]
                /\ Len(more) # Len(Asked) /\ UNCHANGED <<stage, answer>>
             \/ ~ refusal /\ attempts[r] + 1 < Retries /\ UNCHANGED <<stage, answer, quoted>>
    <3>1. /\ stage'[r] = "quote" /\ op'[r] = "tickers" /\ answer'[r] = 0
      BY <1>1, <2>2 DEF IngestInv, RequestInv, Staged
    <3>2. attempts'[r] < Retries
      <4>1. attempts[r] \in Nat /\ Retries \in Nat \ {0}
        BY RetryIs DEF IngestInv
      <4>2. CASE code = "ok"
        BY <1>5, <4>1, <4>2
      <4>3. CASE code # "ok"
        BY <1>5, <2>2, <4>1, <4>3
      <4>. QED BY <4>2, <4>3
    <3>3. Staged(r)'
      BY <3>1, <3>2 DEF Staged, AtVendor
    <3>4. Refused(r)'
      BY <1>5, <2>2 DEF Refused
    <3>5. Quoting(r)'
      <4>1. Len(Asked) \in Nat
        BY IngestAssumption, LenProperties
      <4>2. quoted'[r] = quoted[r] \/ (quoted'[r] = more /\ Len(more) < Len(Asked) /\ Vendor # "binance")
        BY <1>6, <1>7, <2>2, <4>1 DEF IngestInv, TypeOK
      <4>. QED BY <1>6, <1>7, <2>0, <3>1, <4>2 DEF Quoting
    <3>6. Sent(r)' = Sent(r) /\ Sent(r) = {}
      BY <1>1, StreamSame DEF IngestInv, RequestInv, Counted
    <3>7. Counted(r)'
      BY <3>1, <3>6 DEF Counted
    <3>. QED BY <1>9, <3>3, <3>4, <3>5, <3>7 DEF RequestInv, Carried, Newest
  <2>3. CASE \E status \in Statuses \ {0, 200} : Ends(r, status) /\ (refusal => status \in 400 .. 499)
    <3>1. stage'[r] = "done" /\ answer'[r] # 200 /\ (refusal => answer'[r] \in 400 .. 499)
      BY <2>3 DEF IngestInv, TypeOK, Ends
    <3>. QED BY <1>5, <3>1, Ended
  <2>. QED BY <1>8, <2>1, <2>2, <2>3
<1>12. stream' = stream /\ StreamInv'
  BY <1>1, StreamSame DEF streamVars
<1>. QED BY <1>1, <1>9, <1>10, <1>11, <1>12, QuietKeeps DEF IngestInv

----------------------------------------------------------------------------
\* Fetching.

\* Candles of this moment, which a request takes in its hand.
LEMMA HoldsKeeps ==
  ASSUME IngestInv, NEW r \in Requests, stage[r] \in {"new", "fetch"},
         UNCHANGED <<source, now, table, initialized, passed, quoted>>, UNCHANGED streamVars,
         NEW kind \in {"sync", "raw"}, op' = [op EXCEPT ![r] = kind],
         NEW cs \in Seq(Candle), cs # <<>>, Strict(cs), Holds(r, cs),
         \A i \in DOMAIN cs : cs[i].version = Version(cs[i].at),
         NEW offer \in SUBSET Candle, offered' = [offered EXCEPT ![r] = offer],
         Range(cs) \subseteq offer, \A c \in offer : c.at <= cs[Len(cs)].at,
         attempts' \in [Requests -> 0 .. Retries], \A q \in Requests \ {r} : attempts'[q] = attempts[q],
         refused' \in [Requests -> BOOLEAN], \A q \in Requests \ {r} : refused'[q] = refused[q],
         ~ (refused'[r] /\ Vendor # "binance")
  PROVE  IngestInv'
<1>1. /\ fetched' = [fetched EXCEPT ![r] = cs]
      /\ \E to \in {"insert", "table"} : stage' = [stage EXCEPT ![r] = to]
      /\ answer' = [answer EXCEPT ![r] = 0]
  BY GoesOn DEF Holds
<1>2. /\ stage'[r] \in {"insert", "table"} /\ answer'[r] = 0 /\ fetched'[r] = cs
      /\ op'[r] = kind /\ offered'[r] = offer
      /\ \A q \in Requests \ {r} : Same(q)
  BY <1>1 DEF IngestInv, TypeOK, Same
<1>3. TypeOK'
  <2>1. StreamTypeOK'
    BY StreamSame
  <2>2. /\ stage' \in [Requests -> Waiting \cup {"new", "done"}]
        /\ answer' \in [Requests -> {0, 200, 201, 400, 401, 429, 500, 502, 504}]
    BY <1>1 DEF IngestInv, TypeOK, Waiting, AtVendor
  <2>3. /\ op' \in [Requests -> {"none", "sync", "raw", "query", "tickers"}]
        /\ fetched' \in [Requests -> Seq(Candle)]
        /\ offered' \in [Requests -> SUBSET Candle]
    BY <1>1 DEF IngestInv, TypeOK
  <2>. QED BY <2>1, <2>2, <2>3 DEF IngestInv, TypeOK
<1>4. VersionsGrow /\ Vendor' = Vendor /\ stream' = stream /\ Ids' = Ids
  BY NowGrows DEF IngestInv, Vendor, streamVars, Ids
<1>5. ASSUME NEW q \in Requests \ {r} PROVE RequestInv(q)'
  <2>1. Sent(q)' = Sent(q)
    BY StreamSame
  <2>. QED BY <1>2, <1>4, <2>1, OthersKept DEF IngestInv
<1>6. RequestInv(r)'
  <2>1. Staged(r)' /\ Refused(r)' /\ Quoting(r)'
    BY <1>2, <1>4 DEF Staged, Refused, Quoting, AtVendor
  <2>2. \A c \in Range(cs) : c.version <= Version(c.at)
    <3> SUFFICES ASSUME NEW i \in DOMAIN cs PROVE cs[i].version <= Version(cs[i].at)
      BY DEF Range
    <3>1. cs[i] \in Candle
      BY ElementOfSeq, LenProperties
    <3>2. cs[i].version \in Int
      BY <3>1, IngestAssumption DEF Candle
    <3>. QED BY <3>2
  <2>3. Carried(r)'
    BY <1>2, <2>2 DEF Carried, Strict, Version
  <2>4. Newest(r)'
    BY <1>2 DEF Newest, Last
  <2>5. Sent(r)' = Sent(r) /\ Sent(r) = {}
    BY StreamSame DEF IngestInv, RequestInv, Counted
  <2>6. Counted(r)'
    BY <1>2, <2>5 DEF Counted
  <2>. QED BY <2>1, <2>3, <2>4, <2>6 DEF RequestInv
<1>7. ASSUME NEW p, NEW candles \in Seq(Candle), \A c \in Range(candles) : c.version <= Version(c.at)
      PROVE  NotOlder(r, p, candles)'
  <2> SUFFICES ASSUME NEW c \in Range(candles), NEW i \in DOMAIN cs, c.at = cs[i].at
               PROVE  cs[i].version >= c.version
    BY <1>2, ZenonT(30) DEF NotOlder, Range
  <2>1. c \in Candle /\ cs[i] \in Candle
    BY RangeOfSeq, ElementOfSeq, LenProperties
  <2>2. c.version \in Int /\ cs[i].version \in Int
    BY <2>1, IngestAssumption DEF Candle
  <2>3. c.version <= Version(c.at) /\ cs[i].version = Version(c.at)
    BY <1>7
  <2>. QED BY <2>2, <2>3
<1>8. InHand' \subseteq InHand \cup {r} /\ Announcing' = Announcing /\ r \notin Announcing
  BY <1>2 DEF InHand, Announcing, Same
<1>9. Announcements'
  <2>1. ASSUME NEW i \in Ids
        PROVE  /\ stream[i].candles \in Seq(Candle)
               /\ \A c \in Range(stream[i].candles) : c.version <= Version(c.at)
    <3>1. stream[i].candles \in Seq(Candle)
      BY EntriesAre
    <3>2. \A c \in Range(stream[i].candles) : c.version <= Version(c.at)
      BY DEF IngestInv, Announcements
    <3>. QED BY <3>1, <3>2
  <2>2. ASSUME NEW p \in Announcing
        PROVE  /\ fetched[p] \in Seq(Candle) /\ fetched'[p] = fetched[p]
               /\ \A c \in Range(fetched[p]) : c.version <= Version(c.at)
    <3>1. p \in Requests \ {r}
      BY <1>8 DEF Announcing
    <3>. QED BY <1>2, <3>1 DEF IngestInv, TypeOK, RequestInv, Carried, Same
  <2>3. ASSUME NEW q \in InHand', NEW i \in Ids PROVE NotOlder(q, stream[i].by, stream[i].candles)'
    <3>1. CASE q = r
      BY <1>4, <1>7, <2>1, <3>1
    <3>2. CASE q # r
      <4>1. q \in InHand /\ fetched'[q] = fetched[q] /\ passed' = passed
        BY <1>2, <1>8, <3>2 DEF InHand, Same
      <4>. QED BY <1>4, <4>1 DEF IngestInv, Announcements, NotOlder
    <3>. QED BY <3>1, <3>2
  <2>4. ASSUME NEW q \in InHand', NEW p \in Announcing PROVE NotOlder(q, p, fetched[p])'
    <3>1. CASE q = r
      BY <1>7, <2>2, <3>1
    <3>2. CASE q # r
      <4>1. q \in InHand /\ fetched'[q] = fetched[q] /\ passed' = passed
        BY <1>2, <1>8, <3>2 DEF InHand, Same
      <4>. QED BY <2>2, <4>1 DEF IngestInv, Announcements, NotOlder
    <3>. QED BY <3>1, <3>2
  <2>5. \A i \in Ids : Stored(stream[i].by, stream[i].candles)'
    BY <1>4 DEF IngestInv, Announcements, Stored
  <2>6. \A p \in Announcing : Stored(p, fetched[p])'
    BY <2>2 DEF IngestInv, Announcements, Stored
  <2>7. \A i \in Ids : \A c \in Range(stream[i].candles) : c.version <= Version(c.at)'
    BY <2>1 DEF Version
  <2>. QED BY <1>4, <1>8, <2>3, <2>4, <2>5, <2>6, <2>7 DEF Announcements
<1>10. StreamInv'
  BY StreamSame
<1>. QED BY <1>3, <1>5, <1>6, <1>9, <1>10 DEF IngestInv

LEMMA FetchKeeps ==
  ASSUME IngestInv, NEW r \in Requests, Fetch(r)
  PROVE  IngestInv'
<1>1. /\ stage[r] = "fetch" /\ op[r] = "sync" /\ attempts[r] < Retries
      /\ UNCHANGED <<source, now, table, initialized, passed, op, quoted>>
      /\ UNCHANGED streamVars
  BY DEF Fetch, store, IngestInv, RequestInv, Staged, AtVendor
<1>2. PICK reply \in Replies(Vendor, Offers), limit \in Limits :
        LET result == Attempted(Vendor, reply, limit)
        IN /\ attempts' = [attempts EXCEPT ![r] = IF result.code = "ok" THEN 0 ELSE @ + 1]
           /\ refused' = [refused EXCEPT ![r] = Refuses(Vendor, reply)]
           /\ \/ /\ result.code = "ok" /\ result.candles # <<>>
                 /\ Holds(r, result.candles)
                 /\ offered' = [offered EXCEPT ![r] = {CandleOf(row) : row \in {w \in Range(reply.rows) : Whole(w)}}]
              \/ /\ \/ result = Candles(<<>>) /\ Ends(r, 201)
                    \/ MayRetry(r, result.code) /\ UNCHANGED <<stage, answer>>
                    \/ /\ result.code # "ok" /\ ~MayRetry(r, result.code)
                       /\ Ends(r, HttpStatusFor(Wrapped(result.code)))
                 /\ UNCHANGED <<fetched, offered>>
  BY DEF Fetch
<1> DEFINE result == Attempted(Vendor, reply, limit)
           refusal == Refuses(Vendor, reply) /\ Vendor # "binance"
<1>3. Answers(reply, result)
  <2>1. now \in 0 .. MaxTicks /\ source \in Sources /\ limit \in Int
    BY IngestAssumption DEF IngestInv, TypeOK
  <2>2. \A rows \in Offers : AsSent(rows)
    BY <2>1, OffersAre
  <2>. QED BY <2>1, <2>2, AdaptersAnswer
<1>4. /\ attempts' = [attempts EXCEPT ![r] = IF result.code = "ok" THEN 0 ELSE @ + 1]
      /\ refused' = [refused EXCEPT ![r] = Refuses(Vendor, reply)]
      /\ \/ /\ result.code = "ok" /\ result.candles # <<>>
            /\ Holds(r, result.candles) /\ offered' = [offered EXCEPT ![r] = Sold(reply.rows)]
         \/ /\ \/ result = Candles(<<>>) /\ Ends(r, 201)
               \/ MayRetry(r, result.code) /\ UNCHANGED <<stage, answer>>
               \/ /\ result.code # "ok" /\ ~MayRetry(r, result.code)
                  /\ Ends(r, HttpStatusFor(Wrapped(result.code)))
            /\ UNCHANGED <<fetched, offered>>
  BY <1>2 DEF Sold
<1> HIDE DEF result
<1>5. refusal => result.code \in Refusals
  BY <1>3 DEF Answers
<1>6. /\ attempts' \in [Requests -> 0 .. Retries]
      /\ refused' \in [Requests -> BOOLEAN]
      /\ refused'[r] /\ Vendor' # "binance" <=> refusal
      /\ attempts'[r] = IF result.code = "ok" THEN 0 ELSE attempts[r] + 1
      /\ \A q \in Requests \ {r} : attempts'[q] = attempts[q] /\ refused'[q] = refused[q]
      /\ Vendor' = Vendor
  <2>1. attempts \in [Requests -> 0 .. Retries] /\ refused \in [Requests -> BOOLEAN] /\ Vendor' = Vendor
    BY <1>1 DEF IngestInv, TypeOK, Vendor
  <2>2. Refuses(Vendor, reply) \in BOOLEAN
    BY DEF Refuses
  <2>3. attempts[r] + 1 \in 0 .. Retries /\ 0 \in 0 .. Retries
    BY <1>1, <2>1, RetryIs DEF IngestInv
  <2>. QED BY <1>4, <2>1, <2>2, <2>3
<1> HIDE DEF refusal
<1>7. CASE /\ result.code = "ok" /\ result.candles # <<>>
           /\ Holds(r, result.candles) /\ offered' = [offered EXCEPT ![r] = Sold(reply.rows)]
  <2> DEFINE cs == result.candles
             offer == Sold(reply.rows)
  <2>1. AsSent(reply.rows) /\ Good(cs, reply.rows) /\ cs \in Seq(Candle)
    BY <1>3, <1>7 DEF Answers
  <2>2. now \in 0 .. MaxTicks /\ source \in Sources
    BY DEF IngestInv, TypeOK
  <2>3. AsSent(reply.rows)
    BY <2>1
  <2>4. \A c \in offer : c \in Candle /\ c.version = Version(c.at)
    <3> SUFFICES ASSUME NEW c \in offer PROVE c \in Candle /\ c.version = Version(c.at)
      OBVIOUS
    <3>1. PICK i \in DOMAIN reply.rows : c = CandleOf(reply.rows[i])
      BY <2>2, <2>3, RowsAre
    <3>2. c \in Candle /\ c.at = reply.rows[i].at
      BY <2>2, <2>3, <3>1, RowsAre
    <3>3. c.version = reply.rows[i].version
      BY <3>1 DEF CandleOf
    <3>. QED BY <2>3, <3>2, <3>3 DEF AsSent
  <2>5. ~ refusal
    BY <1>5, <1>7 DEF Refusals
  <2>6. op' = [op EXCEPT ![r] = "sync"]
    BY <1>1 DEF IngestInv, TypeOK
  <2>7. \A i \in DOMAIN cs : cs[i] \in offer
    BY <2>1 DEF Good
  <2>8. \A i \in DOMAIN cs : cs[i].version = Version(cs[i].at)
    BY <2>4, <2>7
  <2>9. Range(cs) \subseteq offer
    BY <2>7 DEF Range
  <2>10. Strict(cs) /\ \A c \in offer : c.at <= cs[Len(cs)].at
    BY <1>7, <2>1 DEF Good
  <2>11. offer \in SUBSET Candle
    BY <2>4
  <2>12. ~ (refused'[r] /\ Vendor # "binance")
    BY <1>6, <2>5
  <2> HIDE DEF cs, offer
  <2>13. /\ cs # <<>> /\ Holds(r, cs) /\ offered' = [offered EXCEPT ![r] = offer]
         /\ "sync" \in {"sync", "raw"}
    BY <1>7 DEF cs, offer
  <2>. QED BY <1>1, <1>6, <2>1, <2>6, <2>8, <2>9, <2>10, <2>11, <2>12, <2>13, HoldsKeeps
<1>8. CASE /\ \/ result = Candles(<<>>) /\ Ends(r, 201)
              \/ MayRetry(r, result.code) /\ UNCHANGED <<stage, answer>>
              \/ /\ result.code # "ok" /\ ~MayRetry(r, result.code)
                 /\ Ends(r, HttpStatusFor(Wrapped(result.code)))
           /\ UNCHANGED <<fetched, offered>>
  <2>1. \/ ~ refusal /\ attempts[r] + 1 < Retries /\ UNCHANGED <<stage, answer>>
        \/ \E status \in Statuses \ {0} : Ends(r, status) /\ (refusal => status \in 400 .. 499)
    <3>1. CASE result = Candles(<<>>) /\ Ends(r, 201)
      <4>1. result.code = "ok"
        BY <3>1 DEF Candles
      <4>2. ~ refusal
        BY <1>5, <4>1 DEF Refusals
      <4>. QED BY <3>1, <4>2 DEF Statuses
    <3>2. CASE MayRetry(r, result.code) /\ UNCHANGED <<stage, answer>>
      <4>1. Retryable(result.code) /\ attempts[r] + 1 < Retries
        BY <3>2, RetryIs DEF IngestInv
      <4>2. ~ refusal
        BY <1>5, <4>1, StatusIs
      <4>. QED BY <3>2, <4>1, <4>2
    <3>3. CASE Ends(r, HttpStatusFor(Wrapped(result.code)))
      BY <1>5, <3>3, StatusIs
    <3>. QED BY <1>8, <3>1, <3>2, <3>3
  <2>2. /\ stage' \in [Requests -> Waiting \cup {"new", "done"}]
        /\ answer' \in [Requests -> {0, 200, 201, 400, 401, 429, 500, 502, 504}]
        /\ stage'[r] \in {"fetch", "done"}
        /\ \A q \in Requests \ {r} : Same(q)
        /\ r \notin InHand' /\ r \notin Announcing'
    <3>1. /\ stage \in [Requests -> Waiting \cup {"new", "done"}] /\ stage[r] = "fetch"
          /\ answer \in [Requests -> {0, 200, 201, 400, 401, 429, 500, 502, 504}]
      BY <1>1, SMTT(20) DEF IngestInv, TypeOK
    <3>2. UNCHANGED <<stage, answer>> \/ \E status \in Statuses : Ends(r, status)
      BY <2>1
    <3>3. /\ stage' \in [Requests -> Waiting \cup {"new", "done"}]
          /\ answer' \in [Requests -> {0, 200, 201, 400, 401, 429, 500, 502, 504}]
          /\ stage'[r] \in {"fetch", "done"}
          /\ \A q \in Requests \ {r} : stage'[q] = stage[q] /\ answer'[q] = answer[q]
      BY <3>1, <3>2 DEF Ends, Statuses
    <3>. QED BY <1>1, <1>6, <1>8, <3>3 DEF Same, InHand, Announcing
  <2>3. TypeOK'
    <3>1. StreamTypeOK'
      BY <1>1, StreamSame
    <3>. QED BY <1>1, <1>6, <1>8, <2>2, <3>1, SMTT(30) DEF IngestInv, TypeOK
  <2>4. RequestInv(r)'
    <3>1. CASE ~ refusal /\ attempts[r] + 1 < Retries /\ UNCHANGED <<stage, answer>>
      <4>1. stage'[r] = "fetch" /\ op'[r] = "sync" /\ answer'[r] = 0
        BY <1>1, <3>1 DEF IngestInv, RequestInv, Staged
      <4>2. attempts'[r] < Retries
        <5>1. attempts[r] \in Nat /\ Retries \in Nat \ {0}
          BY RetryIs DEF IngestInv
        <5>. QED BY <1>6, <3>1, <5>1
      <4>3. Staged(r)' /\ Refused(r)' /\ Quoting(r)'
        BY <1>6, <3>1, <4>1, <4>2 DEF Staged, Refused, Quoting, AtVendor
      <4>4. Sent(r)' = Sent(r) /\ Sent(r) = {}
        BY <1>1, StreamSame DEF IngestInv, RequestInv, Counted
      <4>5. Counted(r)'
        BY <4>1, <4>4 DEF Counted
      <4>. QED BY <2>2, <4>3, <4>5 DEF RequestInv, Carried, Newest
    <3>2. CASE \E status \in Statuses \ {0} : Ends(r, status) /\ (refusal => status \in 400 .. 499)
      <4>1. stage'[r] = "done" /\ (refusal => answer'[r] \in 400 .. 499) /\ op'[r] # "tickers"
        BY <1>1, <3>2 DEF IngestInv, TypeOK, Ends
      <4>. QED BY <1>6, <4>1, Ended
    <3>. QED BY <2>1, <3>1, <3>2
  <2>5. stream' = stream /\ StreamInv'
    BY <1>1, StreamSame DEF streamVars
  <2>. QED BY <1>1, <2>2, <2>3, <2>4, <2>5, QuietKeeps DEF IngestInv
<1>. QED BY <1>4, <1>7, <1>8

\* A recorded feed: one candle of each bar from some bar on.
LEMMA FeedIs ==
  ASSUME now \in 0 .. MaxTicks, NEW from \in Opened
  PROVE  LET cs == [i \in 1 .. Max(Opened) - from + 1 |-> CandleOf(Offer(from + i - 1, "whole"))]
         IN /\ cs \in Seq(Candle) /\ cs # <<>> /\ Strict(cs)
            /\ \A i \in DOMAIN cs : cs[i].version = Version(cs[i].at)
            /\ \A c \in Range(cs) : c \in Candle /\ c.at <= cs[Len(cs)].at
<1> DEFINE n == Max(Opened) - from + 1
           cs == [i \in 1 .. n |-> CandleOf(Offer(from + i - 1, "whole"))]
<1>1. /\ Max(Opened) \in Nat /\ from \in Nat /\ from <= Max(Opened)
      /\ \A bar \in from .. Max(Opened) : bar \in Bars /\ Version(bar) \in 0 .. BarTicks
  BY OpenedAre, BarsAre
<1>2. n \in Nat \ {0} /\ \A i \in 1 .. n : from + i - 1 \in from .. Max(Opened)
  BY <1>1
<1>3. from + n - 1 = Max(Opened)
  BY <1>1
<1> HIDE DEF n
<1>4. DOMAIN cs = 1 .. n
  OBVIOUS
<1>5. ASSUME NEW i \in 1 .. n
      PROVE  cs[i] \in Candle /\ cs[i].at = from + i - 1 /\ cs[i].version = Version(cs[i].at)
  <2>1. from + i - 1 \in Bars /\ Version(from + i - 1) \in 0 .. BarTicks
    BY <1>1, <1>2
  <2> DEFINE bar == from + i - 1
  <2>2. cs[i] = CandleOf(Offer(bar, "whole"))
    OBVIOUS
  <2> HIDE DEF bar, cs
  <2>3. bar \in Bars /\ Version(bar) \in 0 .. BarTicks
    BY <2>1 DEF bar
  <2>4. cs[i] \in Candle /\ cs[i].at = bar /\ cs[i].version = Version(bar)
    BY <2>2, <2>3 DEF CandleOf, Offer, Candle
  <2>. QED BY <2>4 DEF bar
<1>6. cs \in Seq(Candle) /\ Len(cs) = n /\ cs # <<>>
  <2> HIDE DEF cs
  <2>1. cs \in [1 .. n -> Candle]
    <3>1. cs = [i \in 1 .. n |-> CandleOf(Offer(from + i - 1, "whole"))]
      BY DEF cs
    <3>. QED BY <1>5, <3>1
  <2>2. cs \in Seq(Candle) /\ Len(cs) = n
    BY <1>2, <2>1
  <2>3. n # 0 /\ Len(<<>>) = 0
    BY <1>2, EmptySeq
  <2>. QED BY <2>2, <2>3
<1> HIDE DEF cs
<1>7. Strict(cs)
  BY <1>1, <1>2, <1>4, <1>5 DEF Strict
<1>8. ASSUME NEW c \in Range(cs) PROVE c \in Candle /\ c.at <= cs[Len(cs)].at
  <2>1. PICK i \in 1 .. n : c = cs[i]
    BY <1>4 DEF Range
  <2>2. c \in Candle /\ c.at = from + i - 1 /\ cs[Len(cs)].at = from + n - 1
    BY <1>2, <1>5, <1>6, <2>1
  <2>. QED BY <1>1, <1>2, <2>2
<1>9. \A i \in DOMAIN cs : cs[i].version = Version(cs[i].at)
  BY <1>4, <1>5
<1>. QED BY <1>6, <1>7, <1>8, <1>9 DEF cs, n

LEMMA IngestRawKeeps ==
  ASSUME IngestInv, NEW r \in Requests, IngestRaw(r)
  PROVE  IngestInv'
<1>1. /\ stage[r] = "new" /\ op' = [op EXCEPT ![r] = "raw"]
      /\ UNCHANGED <<source, now, table, initialized, passed, attempts, quoted, refused>>
      /\ UNCHANGED streamVars
  BY DEF IngestRaw, store
<1>2. /\ attempts' \in [Requests -> 0 .. Retries] /\ refused' \in [Requests -> BOOLEAN]
      /\ ~ (refused'[r] /\ Vendor' # "binance") /\ Vendor' = Vendor
      /\ \A q \in Requests \ {r} : attempts'[q] = attempts[q] /\ refused'[q] = refused[q]
  BY <1>1 DEF IngestInv, TypeOK, RequestInv, Refused, Vendor
<1>3. ASSUME NEW status \in {200, 502}, Ends(r, status), UNCHANGED <<fetched, offered>>
      PROVE  IngestInv'
  <2>1. /\ stage'[r] = "done" /\ answer'[r] = status /\ op'[r] = "raw"
        /\ \A q \in Requests \ {r} : Same(q)
    BY <1>1, <1>3 DEF IngestInv, TypeOK, Same, Ends
  <2>2. RequestInv(r)' /\ r \notin InHand' /\ r \notin Announcing'
    BY <1>2, <2>1, Ended
  <2>3. TypeOK'
    <3>1. StreamTypeOK'
      BY <1>1, StreamSame
    <3>2. /\ stage' \in [Requests -> Waiting \cup {"new", "done"}]
          /\ answer' \in [Requests -> {0, 200, 201, 400, 401, 429, 500, 502, 504}]
          /\ op' \in [Requests -> {"none", "sync", "raw", "query", "tickers"}]
      BY <1>1, <1>3 DEF IngestInv, TypeOK, Ends
    <3>. QED BY <1>1, <1>3, <3>1, <3>2 DEF IngestInv, TypeOK
  <2>4. stream' = stream /\ StreamInv'
    BY <1>1, StreamSame DEF streamVars
  <2>. QED BY <1>1, <2>1, <2>2, <2>3, <2>4, QuietKeeps DEF IngestInv
<1>4. ASSUME NEW from \in Opened,
             LET cs == [i \in 1 .. Max(Opened) - from + 1 |-> CandleOf(Offer(from + i - 1, "whole"))]
             IN Holds(r, cs) /\ offered' = [offered EXCEPT ![r] = Range(cs)]
      PROVE  IngestInv'
  <2> DEFINE cs == [i \in 1 .. Max(Opened) - from + 1 |-> CandleOf(Offer(from + i - 1, "whole"))]
             offer == Range(cs)
  <2>1. /\ cs \in Seq(Candle) /\ cs # <<>> /\ Strict(cs)
        /\ \A i \in DOMAIN cs : cs[i].version = Version(cs[i].at)
        /\ \A c \in Range(cs) : c \in Candle /\ c.at <= cs[Len(cs)].at
    BY FeedIs, ZenonT(30) DEF IngestInv, TypeOK
  <2>2. Holds(r, cs) /\ offered' = [offered EXCEPT ![r] = offer]
    BY <1>4
  <2> HIDE DEF cs
  <2>3. offer \in SUBSET Candle /\ Range(cs) \subseteq offer /\ \A c \in offer : c.at <= cs[Len(cs)].at
    BY <2>1
  <2> HIDE DEF offer
  <2>4. ~ (refused'[r] /\ Vendor # "binance") /\ stage[r] \in {"new", "fetch"} /\ "raw" \in {"sync", "raw"}
    BY <1>1, <1>2
  <2>. QED BY <1>1, <1>2, <2>1, <2>2, <2>3, <2>4, HoldsKeeps
<1>5. HttpStatusFor("malformed_data") = 502
  BY DEF HttpStatusFor
<1>6. \/ \E status \in {200, 502} : Ends(r, status) /\ UNCHANGED <<fetched, offered>>
      \/ \E from \in Opened :
           LET cs == [i \in 1 .. Max(Opened) - from + 1 |-> CandleOf(Offer(from + i - 1, "whole"))]
           IN Holds(r, cs) /\ offered' = [offered EXCEPT ![r] = Range(cs)]
  BY <1>5, ZenonT(30) DEF IngestRaw
<1>. QED BY <1>3, <1>4, <1>6

LEMMA TickKeeps ==
  ASSUME IngestInv, Tick
  PROVE  IngestInv'
<1>1. /\ now < MaxTicks /\ now' = now + 1
      /\ UNCHANGED <<source, table, initialized, passed, op, stage, attempts, fetched, quoted, answer, refused, offered>>
      /\ UNCHANGED streamVars
  BY DEF Tick, store, request
<1>2. VersionsGrow
  BY <1>1, NowGrows DEF IngestInv
<1>3. TypeOK'
  <2>1. StreamTypeOK'
    BY <1>1, StreamSame
  <2>2. now' \in 0 .. MaxTicks
    BY <1>1, IngestAssumption DEF IngestInv, TypeOK
  <2>. QED BY <1>1, <2>1, <2>2 DEF IngestInv, TypeOK
<1>4. ASSUME NEW q \in Requests PROVE RequestInv(q)'
  <2>1. Same(q) /\ Sent(q)' = Sent(q)
    BY <1>1, StreamSame DEF Same
  <2>. QED BY <1>1, <1>2, <2>1, OthersKept DEF IngestInv
<1>5. Announcements'
  <2>1. InHand' = InHand /\ Announcing' = Announcing /\ stream' = stream
    BY <1>1 DEF InHand, Announcing, streamVars
  <2>. QED BY <1>1, <1>2, <2>1, AnnouncementsKept
<1>6. StreamInv'
  BY <1>1, StreamSame
<1>. QED BY <1>3, <1>4, <1>5, <1>6 DEF IngestInv

LEMMA CrashKeeps ==
  ASSUME IngestInv, Crash
  PROVE  IngestInv'
<1>1. /\ stage' = [r \in Requests |-> IF stage[r] \in Waiting THEN "done" ELSE stage[r]]
      /\ initialized' = FALSE
      /\ UNCHANGED <<source, now, table, passed, op, attempts, fetched, quoted, answer, refused, offered, stream>>
      /\ StreamTypeOK' /\ StreamInv' /\ \A r \in Requests : Sent(r)' = Sent(r)
  BY MishapIs DEF Crash
<1>2. VersionsGrow
  BY <1>1, NowGrows DEF IngestInv
<1>3. TypeOK'
  <2>1. stage' \in [Requests -> Waiting \cup {"new", "done"}]
    BY <1>1 DEF IngestInv, TypeOK
  <2>2. /\ TypeOK /\ StreamTypeOK' /\ initialized' = FALSE
        /\ UNCHANGED <<source, now, table, passed, op, attempts, fetched, quoted, answer, refused, offered>>
    BY <1>1 DEF IngestInv
  <2>. QED BY <2>1, <2>2, ZenonT(60) DEF TypeOK
<1>4. ASSUME NEW q \in Requests PROVE RequestInv(q)' /\ q \notin InHand' /\ q \notin Announcing'
  <2>1. CASE stage[q] \in Waiting
    <3>1. stage'[q] = "done" /\ answer'[q] = 0 /\ stage[q] # "done"
      BY <1>1, <2>1 DEF IngestInv, RequestInv, Staged, Waiting, AtVendor
    <3>2. ~ (refused'[q] /\ Vendor' # "binance")
      BY <1>1, <3>1 DEF IngestInv, RequestInv, Refused, Vendor
    <3>. QED BY <3>1, <3>2, Ended
  <2>2. CASE stage[q] \notin Waiting
    <3>1. Same(q)
      BY <1>1, <2>2 DEF Same
    <3>2. RequestInv(q)'
      BY <1>1, <1>2, <3>1, OthersKept DEF IngestInv
    <3>3. stage'[q] \notin {"table", "insert", "publish"}
      BY <2>2, <3>1 DEF Same, Waiting
    <3>. QED BY <3>2, <3>3 DEF InHand, Announcing
  <2>. QED BY <2>1, <2>2
<1>5. Announcements'
  <2>1. InHand' = {} /\ Announcing' = {}
    BY <1>4 DEF InHand, Announcing
  <2>. QED BY <1>1, <1>2, <2>1, AnnouncementsKept
<1>. QED BY <1>1, <1>3, <1>4, <1>5 DEF IngestInv

----------------------------------------------------------------------------
\* The consumer.

\* A step of the consumer touches nothing the requests are about.
LEMMA ReadingKeeps ==
  ASSUME IngestInv, UNCHANGED <<source, now, store, request, stream>>, StreamTypeOK', StreamInv'
  PROVE  IngestInv'
<1>1. UNCHANGED <<source, now, table, initialized, passed, op, stage, attempts, fetched, quoted, answer, refused, offered, stream>>
  BY DEF store, request
<1>2. VersionsGrow
  BY <1>1, NowGrows DEF IngestInv
<1>3. TypeOK'
  BY <1>1 DEF IngestInv, TypeOK
<1>4. ASSUME NEW q \in Requests PROVE RequestInv(q)'
  <2>1. Same(q) /\ Sent(q)' = Sent(q)
    BY <1>1 DEF Same, Sent, Ids
  <2>. QED BY <1>1, <1>2, <2>1, OthersKept DEF IngestInv
<1>5. Announcements'
  <2>1. InHand' = InHand /\ Announcing' = Announcing
    BY <1>1 DEF InHand, Announcing
  <2>. QED BY <1>1, <1>2, <2>1, AnnouncementsKept
<1>. QED BY <1>3, <1>4, <1>5 DEF IngestInv

\* A batch is of entries not delivered yet.
LEMMA FreshIs ==
  ASSUME StreamTypeOK, NEW Entry, stream \in Seq(Entry)
  PROVE  /\ Fresh \in Seq(Ids) /\ delivered + Len(Fresh) \in 0 .. Len(stream)
         /\ {Fresh[i] : i \in DOMAIN Fresh} \subseteq Ids
<1> DEFINE n == IF Len(stream) - delivered < BatchSize THEN Len(stream) - delivered ELSE BatchSize
<1>1. Len(stream) \in Nat /\ Ids = 1 .. Len(stream) /\ delivered \in Nat /\ delivered <= Len(stream)
  BY LenProperties DEF StreamTypeOK, Ids
<1>2. n \in Nat /\ delivered + n <= Len(stream)
  BY <1>1, StreamAssumption
<1>3. Fresh = [i \in 1 .. n |-> delivered + i]
  BY DEF Fresh
<1> HIDE DEF n
<1>4. \A i \in 1 .. n : delivered + i \in Ids
  BY <1>1, <1>2
<1>5. Fresh \in [1 .. n -> Ids]
  BY <1>3, <1>4
<1>6. Fresh \in Seq(Ids) /\ Len(Fresh) = n
  BY <1>2, <1>5
<1>. QED BY <1>1, <1>2, <1>5, <1>6

LEMMA ConsumerKeeps ==
  ASSUME IngestInv, StartConsumer \/ Consume \/ RestartConsumer, UNCHANGED <<source, now, store, request>>
  PROVE  IngestInv'
<1> DEFINE E == [by : Requests, candles : Seq(Candle)]
<1>1. /\ StreamTypeOK /\ stream \in Seq(E)
      /\ consumer \in {"ack", "retry"} => batch # <<>>
  BY DEF IngestInv, TypeOK, StreamInv
<1> HIDE DEF E
<1>2. /\ group \in BOOLEAN /\ delivered \in 0 .. Len(stream)
      /\ batch \in Seq(Ids) /\ consumer \in {"off", "create", "read", "ack", "retry", "sleep"}
      /\ acked \in SUBSET Ids /\ dropped \in SUBSET Ids
      /\ mishaps \in 0 .. MaxMishaps
  BY <1>1 DEF StreamTypeOK
<1>3. /\ Fresh \in Seq(Ids) /\ delivered + Len(Fresh) \in 0 .. Len(stream)
      /\ {Fresh[i] : i \in DOMAIN Fresh} \subseteq Ids
  BY <1>1, FreshIs
<1>4. Mishap => mishaps' \in 0 .. MaxMishaps
  BY <1>2, StreamAssumption DEF Mishap
<1>5. Held \subseteq Ids /\ <<>> \in Seq(Ids)
  BY <1>2, ElementOfSeq, LenProperties, EmptySeq DEF Held
<1>6. consumer \in {"ack", "retry"} => Head(batch) \in Ids /\ Tail(batch) \in Seq(Ids)
  BY <1>1, <1>2, HeadTailProperties
<1>7. SUFFICES /\ stream' = stream
               /\ group' \in BOOLEAN /\ delivered' \in 0 .. Len(stream)
               /\ batch' \in Seq(Ids) /\ consumer' \in {"off", "create", "read", "ack", "retry", "sleep"}
               /\ acked' \in SUBSET Ids /\ dropped' \in SUBSET Ids
               /\ mishaps' \in 0 .. MaxMishaps
               /\ consumer' \in {"ack", "retry"} => batch' # <<>>
  <2>1. ASSUME stream' = stream PROVE Ids' = Ids
    BY <2>1 DEF Ids
  <2>2. StreamTypeOK'
    BY <1>7, <2>1 DEF StreamTypeOK
  <2>3. StreamInv'
    BY <1>1, <1>7 DEF StreamInv, E
  <2>. QED BY <1>7, <2>2, <2>3, ReadingKeeps
<1>8. CASE CreateGroup
  BY <1>2, <1>4, <1>8 DEF CreateGroup
<1>9. CASE ReadBatch
  BY <1>2, <1>3, <1>9 DEF ReadBatch
<1>10. CASE ReadFails
  <2>1. /\ consumer' = "sleep" /\ UNCHANGED <<stream, group, batch, acked>>
        /\ mishaps' = mishaps \/ Mishap
        /\ \/ UNCHANGED <<delivered, dropped>>
           \/ /\ delivered' = delivered + Len(Fresh)
              /\ dropped' = dropped \cup {Fresh[i] : i \in DOMAIN Fresh}
    BY <1>10 DEF ReadFails
  <2>. QED BY <1>2, <1>3, <1>4, <2>1
<1>11. CASE Ack
  BY <1>2, <1>6, <1>11 DEF Ack, Acknowledged
<1>12. CASE AckFails
  <2>1. /\ UNCHANGED <<stream, group, delivered>>
        /\ acked' \in {acked, acked \cup {Head(batch)}}
        /\ consumer \in {"ack", "retry"}
        /\ \/ Mishap /\ consumer' = "retry" /\ UNCHANGED <<batch, dropped>>
           \/ consumer' = "sleep" /\ UNCHANGED mishaps /\ batch' = <<>> /\ dropped' = dropped \cup Held
    BY <1>12 DEF AckFails, Acknowledged
  <2>. QED BY <1>1, <1>2, <1>4, <1>5, <1>6, <2>1
<1>13. CASE Wakes
  BY <1>2, <1>13 DEF Wakes
<1>14. CASE RestartConsumer
  BY <1>2, <1>4, <1>5, <1>14 DEF RestartConsumer
<1>15. CASE StartConsumer
  BY <1>2, <1>15 DEF StartConsumer
<1>. QED BY <1>8, <1>9, <1>10, <1>11, <1>12, <1>13, <1>14, <1>15 DEF Consume

----------------------------------------------------------------------------
\* Appending, and announcing.

\* The table after an append: one row for each candle of the request, the rest as before.
LEMMA UpsertIs ==
  ASSUME TypeOK, NEW r \in Requests,
         \A i, j \in DOMAIN fetched[r] : i < j => fetched[r][i].at < fetched[r][j].at
  PROVE  /\ Upsert(r) \in [Bars -> Row \cup {NoRow}]
         /\ \A c \in Range(fetched[r]) : Upsert(r)[c.at] = [at |-> c.at, of |-> c.of, version |-> c.version, by |-> r]
         /\ \A bar \in Bars : (\A c \in Range(fetched[r]) : c.at # bar) => Upsert(r)[bar] = table[bar]
<1> DEFINE cs == fetched[r]
<1>1. cs \in Seq(Candle) /\ DOMAIN cs \subseteq Nat
  BY LenProperties DEF TypeOK
<1>2. ASSUME NEW i \in DOMAIN cs PROVE cs[i] \in Candle /\ cs[i].at \in Nat
  <2>1. cs[i] \in Candle
    BY <1>1, ElementOfSeq, LenProperties
  <2>. QED BY <2>1, BarsAre DEF Candle
<1>3. ASSUME NEW c \in Range(cs), NEW d \in Range(cs), c.at = d.at PROVE c = d
  <2>1. PICK i \in DOMAIN cs : c = cs[i]
    BY DEF Range
  <2>2. PICK j \in DOMAIN cs : d = cs[j]
    BY DEF Range
  <2>3. i \in Nat /\ j \in Nat /\ c.at \in Nat
    BY <1>1, <1>2, <2>1
  <2>4. ~ (i < j) /\ ~ (j < i)
    BY <1>2, <1>3, <2>1, <2>2, <2>3
  <2>. QED BY <2>1, <2>2, <2>3, <2>4
<1>4. \A c \in Range(cs) : c \in Candle
  BY <1>2 DEF Range
<1> DEFINE Of(bar) == CHOOSE c \in Range(cs) : c.at = bar
           RowOf(c) == [at |-> c.at, of |-> c.of, version |-> c.version, by |-> r]
<1>5. ASSUME NEW c \in Range(cs) PROVE Upsert(r)[c.at] = RowOf(c) /\ RowOf(c) \in Row
  <2>1. Of(c.at) \in Range(cs) /\ Of(c.at).at = c.at
    OBVIOUS
  <2>2. Of(c.at) = c
    <3> HIDE DEF Of, cs
    <3>. QED BY <1>3, <2>1
  <2>3. c \in Candle /\ c.at \in Bars
    BY <1>4 DEF Candle
  <2>4. RowOf(c) \in Row
    BY <2>3 DEF Row, Candle
  <2>5. Upsert(r)[c.at] = [at |-> c.at, of |-> Of(c.at).of, version |-> Of(c.at).version, by |-> r]
    BY <2>3 DEF Upsert
  <2>. QED BY <2>2, <2>4, <2>5
<1>6. ASSUME NEW bar \in Bars, \A c \in Range(cs) : c.at # bar PROVE Upsert(r)[bar] = table[bar]
  BY <1>6 DEF Upsert
<1>7. \A bar \in Bars : Upsert(r)[bar] \in Row \cup {NoRow}
  <2> SUFFICES ASSUME NEW bar \in Bars PROVE Upsert(r)[bar] \in Row \cup {NoRow}
    OBVIOUS
  <2>1. CASE \E c \in Range(cs) : c.at = bar
    <3>1. PICK c \in Range(cs) : c.at = bar
      BY <2>1
    <3>2. Upsert(r)[c.at] \in Row
      BY <1>5
    <3>. QED BY <3>1, <3>2
  <2>2. CASE \A c \in Range(cs) : c.at # bar
    <3>1. Upsert(r)[bar] = table[bar]
      BY <1>6, <2>2
    <3>2. table[bar] \in Row \cup {NoRow}
      BY DEF TypeOK
    <3>. QED BY <3>1, <3>2
  <2>. QED BY <2>1, <2>2
<1>8. Upsert(r) = [bar \in Bars |-> Upsert(r)[bar]]
  BY DEF Upsert
<1>9. Upsert(r) \in [Bars -> Row \cup {NoRow}]
  <2>1. ASSUME NEW f, f = [bar \in Bars |-> f[bar]], \A bar \in Bars : f[bar] \in Row \cup {NoRow}
        PROVE  f \in [Bars -> Row \cup {NoRow}]
    BY <2>1
  <2>. QED BY <1>7, <1>8, <2>1
<1>. QED BY <1>5, <1>6, <1>9

\* The append itself, whether or not its answer arrives: rows of this request
\* replace what was there, and whoever has fetched by now was passed by it.
LEMMA InsertedKeeps ==
  ASSUME IngestInv, NEW r \in Requests, stage[r] = "insert", Inserted(r),
         UNCHANGED <<source, now, op, attempts, fetched, quoted, refused, stream>>,
         StreamTypeOK', StreamInv', \A q \in Requests : Sent(q)' = Sent(q),
         NEW to \in {"publish", "done"}, NEW status \in {0, 500}, to = "publish" => status = 0,
         stage' = [stage EXCEPT ![r] = to], answer' = [answer EXCEPT ![r] = status]
  PROVE  IngestInv'
<1> DEFINE cs == fetched[r]
<1>1. op[r] \in {"sync", "raw"} /\ r \in InHand /\ ~ (refused[r] /\ Vendor # "binance")
  BY DEF IngestInv, RequestInv, Staged, Refused, InHand
<1>2. /\ cs # <<>> /\ cs \in Seq(Candle)
      /\ \A i, j \in DOMAIN cs : i < j => cs[i].at < cs[j].at
      /\ \A c \in Range(cs) : c.version <= Version(c.at)
  BY <1>1 DEF IngestInv, TypeOK, RequestInv, Carried
<1>3. /\ table' \in [Bars -> Row \cup {NoRow}]
      /\ \A c \in Range(cs) : table'[c.at] = [at |-> c.at, of |-> c.of, version |-> c.version, by |-> r]
      /\ \A bar \in Bars : (\A c \in Range(cs) : c.at # bar) => table'[bar] = table[bar]
  BY <1>2, UpsertIs DEF Inserted, IngestInv
<1>4. /\ passed' \in [Requests -> SUBSET Requests]
      /\ \A q \in Requests : passed[q] \subseteq passed'[q]
      /\ \A q \in InHand \ {r} : r \in passed'[q]
  BY DEF Inserted, IngestInv, TypeOK, InHand
<1>5. /\ offered' \in [Requests -> SUBSET Candle] /\ \A q \in Requests \ {r} : offered'[q] = offered[q]
      /\ initialized' = initialized
  BY DEF Inserted, IngestInv, TypeOK
<1>6. /\ stage'[r] = to /\ answer'[r] = status
      /\ \A q \in Requests \ {r} : Same(q)
      /\ stage' \in [Requests -> Waiting \cup {"new", "done"}]
      /\ answer' \in [Requests -> {0, 200, 201, 400, 401, 429, 500, 502, 504}]
  BY <1>5 DEF IngestInv, TypeOK, Same, Waiting, AtVendor
<1>7. TypeOK'
  BY <1>3, <1>4, <1>5, <1>6 DEF IngestInv, TypeOK
<1>8. VersionsGrow /\ Vendor' = Vendor /\ Ids' = Ids
  BY NowGrows DEF IngestInv, Vendor, Ids
<1>9. ASSUME NEW q \in Requests \ {r} PROVE RequestInv(q)'
  BY <1>6, <1>8, OthersKept DEF IngestInv
<1>10. RequestInv(r)'
  <2>1. CASE to = "done"
    <3>1. op'[r] # "tickers" /\ ~ (refused'[r] /\ Vendor' # "binance")
      BY <1>1, <1>8
    <3>. QED BY <1>6, <2>1, <3>1, Ended
  <2>2. CASE to = "publish"
    <3>1. r \notin InHand' /\ status = 0
      BY <1>6, <2>2 DEF InHand
    <3>2. Staged(r)' /\ Refused(r)' /\ Quoting(r)' /\ Newest(r)'
      BY <1>1, <1>6, <1>8, <2>2, <3>1 DEF Staged, Refused, Quoting, Newest, AtVendor
    <3>3. Carried(r)'
      BY <1>2 DEF Carried, Version
    <3>4. Sent(r)' = {} /\ Cardinality({}) = 0 /\ Len(cs) \in Nat /\ Len(cs) # 0
      BY <1>2, FS_EmptySet, EmptySeq, LenProperties DEF IngestInv, RequestInv, Counted
    <3>5. Counted(r)'
      BY <1>6, <2>2, <3>4 DEF Counted
    <3>. QED BY <3>2, <3>3, <3>5 DEF RequestInv
  <2>. QED BY <2>1, <2>2
<1>11. InHand' \subseteq InHand \ {r} /\ Announcing' \subseteq Announcing \cup {r} /\ r \notin Announcing
  BY <1>6 DEF InHand, Announcing, Same
<1>12. ASSUME NEW p, NEW candles \in Seq(Candle), NotOlder(r, p, candles), Stored(p, candles)
       PROVE  Stored(p, candles)'
  <2> SUFFICES ASSUME NEW c \in Range(candles)
               PROVE  table'[c.at] # NoRow /\ (table'[c.at].version >= c.version \/ p \in passed'[table'[c.at].by])
    BY DEF Stored
  <2>1. c.at \in Bars
    <3>1. c \in Candle
      BY RangeOfSeq
    <3>. QED BY <3>1 DEF Candle
  <2>2. CASE \E d \in Range(cs) : d.at = c.at
    <3>1. PICK d \in Range(cs) : d.at = c.at
      BY <2>2
    <3>2. /\ table'[c.at] = [at |-> d.at, of |-> d.of, version |-> d.version, by |-> r]
          /\ d \in Candle
      BY <1>2, <1>3, <3>1, RangeOfSeq
    <3>3. table'[c.at] \in Row
      BY <3>2 DEF Row, Candle
    <3>4. d.version >= c.version \/ p \in passed[r]
      BY <1>12, <3>1 DEF NotOlder
    <3>5. table'[c.at].version = d.version /\ table'[c.at].by = r
      BY <3>2
    <3>. QED BY <1>4, <3>3, <3>4, <3>5, NoRowAssumption
  <2>3. CASE \A d \in Range(cs) : d.at # c.at
    <3>1. table'[c.at] = table[c.at] /\ table[c.at] # NoRow /\ table[c.at] \in Row \cup {NoRow}
      <4>1. table'[c.at] = table[c.at]
        BY <1>3, <2>1, <2>3
      <4>2. table[c.at] \in Row \cup {NoRow}
        BY <2>1 DEF IngestInv, TypeOK
      <4>3. table[c.at] # NoRow
        BY <1>12 DEF Stored
      <4>. QED BY <4>1, <4>2, <4>3
    <3>2. table[c.at].by \in Requests
      BY <3>1 DEF Row
    <3>3. table[c.at].version >= c.version \/ p \in passed[table[c.at].by]
      BY <1>12 DEF Stored
    <3>. QED BY <1>4, <3>1, <3>2, <3>3
  <2>. QED BY <2>2, <2>3
<1>13. Announcements'
  <2>1. ASSUME NEW i \in Ids
        PROVE  /\ stream[i].candles \in Seq(Candle)
               /\ \A c \in Range(stream[i].candles) : c.version <= Version(c.at)
               /\ \A q \in InHand : NotOlder(q, stream[i].by, stream[i].candles)
               /\ Stored(stream[i].by, stream[i].candles)
    BY EntriesAre DEF IngestInv, Announcements
  <2>2. ASSUME NEW p \in Announcing
        PROVE  /\ fetched[p] \in Seq(Candle)
               /\ \A q \in InHand : NotOlder(q, p, fetched[p])
               /\ Stored(p, fetched[p])
    BY DEF IngestInv, TypeOK, Announcements, Announcing
  <2>3. ASSUME NEW i \in Ids, NEW q \in InHand' PROVE NotOlder(q, stream[i].by, stream[i].candles)'
    <3>1. NotOlder(q, stream[i].by, stream[i].candles)
      BY <1>11, <2>1
    <3>2. q \in Requests
      BY <1>11 DEF InHand
    <3>. QED BY <1>4, <3>1, <3>2 DEF NotOlder
  <2>4. ASSUME NEW i \in Ids PROVE Stored(stream[i].by, stream[i].candles)'
    <3>1. /\ NotOlder(r, stream[i].by, stream[i].candles) /\ Stored(stream[i].by, stream[i].candles)
          /\ stream[i].candles \in Seq(Candle)
      BY <1>1, <2>1
    <3>. QED BY <1>12, <3>1 DEF Stored
  <2>5. ASSUME NEW p \in Announcing', NEW q \in InHand' PROVE NotOlder(q, p, fetched[p])'
    <3>1. CASE p = r
      BY <1>4, <1>11, <3>1 DEF NotOlder
    <3>2. CASE p # r
      <4>1. NotOlder(q, p, fetched[p]) /\ q \in Requests
        BY <1>11, <2>2, <3>2 DEF InHand
      <4>. QED BY <1>4, <4>1 DEF NotOlder
    <3>. QED BY <3>1, <3>2
  <2>6. ASSUME NEW p \in Announcing' PROVE Stored(p, fetched[p])'
    <3>1. CASE p = r
      <4> SUFFICES ASSUME NEW c \in Range(cs)
                   PROVE  table'[c.at] # NoRow /\ table'[c.at].version >= c.version
        BY <3>1 DEF Stored
      <4>1. c \in Candle /\ c.version \in Int
        <5>1. c \in Candle
          BY <1>2, RangeOfSeq
        <5>. QED BY <5>1, IngestAssumption DEF Candle
      <4>2. table'[c.at] = [at |-> c.at, of |-> c.of, version |-> c.version, by |-> r]
        BY <1>3
      <4>3. table'[c.at] \in Row
        BY <4>1, <4>2 DEF Row, Candle
      <4>. QED BY <4>1, <4>2, <4>3, NoRowAssumption
    <3>2. CASE p # r
      <4>1. NotOlder(r, p, fetched[p]) /\ Stored(p, fetched[p]) /\ fetched[p] \in Seq(Candle)
        BY <1>1, <1>11, <2>2, <3>2
      <4>. QED BY <1>12, <4>1 DEF Stored
    <3>. QED BY <3>1, <3>2
  <2>7. \A i \in Ids : \A c \in Range(stream[i].candles) : c.version <= Version(c.at)'
    BY <2>1 DEF Version
  <2>. QED BY <1>8, <2>3, <2>4, <2>5, <2>6, <2>7 DEF Announcements
<1>. QED BY <1>7, <1>9, <1>10, <1>13 DEF IngestInv

\* What a request publishes are candles it appended.
LEMMA EventIs ==
  ASSUME IngestInv, NEW r \in Requests, stage[r] = "publish"
  PROVE  /\ Event(r).by = r /\ Event(r) \in [by : Requests, candles : Seq(Candle)]
         /\ \A c \in Range(Event(r).candles) : c \in Range(fetched[r])
         /\ IsFiniteSet(Sent(r)) /\ Cardinality(Sent(r)) \in Nat
         /\ Event(r) = [by |-> r, candles |-> IF op[r] = "sync" THEN fetched[r]
                                               ELSE <<fetched[r][Cardinality(Sent(r)) + 1]>>]
<1> DEFINE cs == fetched[r]
           n == Cardinality(Sent(r))
<1>1. cs \in Seq(Candle) /\ Len(cs) \in Nat /\ DOMAIN cs = 1 .. Len(cs) /\ n < Len(cs)
  BY LenProperties DEF IngestInv, TypeOK, RequestInv, Counted
<1>2. IsFiniteSet(Sent(r)) /\ n \in Nat
  <2>1. Len(stream) \in Nat /\ Ids = 1 .. Len(stream)
    BY LenProperties DEF IngestInv, StreamInv, Ids
  <2>2. IsFiniteSet(Ids)
    BY <2>1, FS_Interval
  <2>3. Sent(r) \in SUBSET Ids
    BY DEF Sent
  <2>4. IsFiniteSet(Sent(r))
    BY <2>2, <2>3, FS_Subset
  <2>. QED BY <2>4, FS_CardinalityType
<1> DEFINE candles == IF op[r] = "sync" THEN cs ELSE <<cs[n + 1]>>
<1>3. Event(r) = [by |-> r, candles |-> candles]
  BY DEF Event, Sent
<1> HIDE DEF n, cs
<1>4. n + 1 \in 1 .. Len(cs)
  BY <1>1, <1>2
<1>5. cs[n + 1] \in Candle /\ cs[n + 1] \in Range(cs)
  BY <1>1, <1>4, ElementOfSeq DEF Range
<1>6. candles \in Seq(Candle) /\ \A c \in Range(candles) : c \in Range(cs)
  <2>1. CASE op[r] = "sync"
    BY <1>1, <2>1
  <2>2. CASE op[r] # "sync"
    <3>1. candles = <<cs[n + 1]>>
      BY <2>2
    <3>2. candles \in Seq(Candle) /\ DOMAIN candles = 1 .. 1 /\ candles[1] = cs[n + 1]
      <4>1. ASSUME NEW d \in Candle
            PROVE  <<d>> \in Seq(Candle) /\ DOMAIN <<d>> = 1 .. 1 /\ <<d>>[1] = d
        <5>1. DOMAIN <<d>> = 1 .. 1 /\ <<d>>[1] = d
          OBVIOUS
        <5>2. <<d>> \in Seq(Candle)
          OBVIOUS
        <5>. QED BY <5>1, <5>2
      <4>. QED BY <1>5, <3>1, <4>1
    <3>3. Range(candles) = {cs[n + 1]}
      BY <3>2 DEF Range
    <3>. QED BY <1>5, <3>2, <3>3
  <2>. QED BY <2>1, <2>2
<1> HIDE DEF candles
<1>7. Event(r).by = r /\ Event(r).candles = candles /\ Event(r) \in [by : Requests, candles : Seq(Candle)]
  BY <1>3, <1>6
<1>8. Event(r) = [by |-> r, candles |-> IF op[r] = "sync" THEN fetched[r] ELSE <<fetched[r][Cardinality(Sent(r)) + 1]>>]
  BY <1>3 DEF candles, cs, n
<1>9. \A c \in Range(Event(r).candles) : c \in Range(fetched[r])
  BY <1>6, <1>7 DEF cs
<1>. QED BY <1>2, <1>7, <1>8, <1>9 DEF n

\* The stream after an entry was added.
LEMMA XAddIs ==
  ASSUME IngestInv, NEW e \in [by : Requests, candles : Seq(Candle)], XAdd(e), UNCHANGED reading,
         mishaps' \in 0 .. MaxMishaps
  PROVE  /\ StreamTypeOK' /\ StreamInv'
         /\ Len(stream) + 1 \notin Ids /\ Ids' = Ids \cup {Len(stream) + 1}
         /\ \A i \in Ids : stream'[i] = stream[i]
         /\ stream'[Len(stream) + 1] = e
<1> DEFINE E == [by : Requests, candles : Seq(Candle)]
<1>1. stream \in Seq(E) /\ e \in E
  BY DEF IngestInv, StreamInv
<1> HIDE DEF E
<1>2. /\ Len(stream) \in Nat /\ DOMAIN stream = 1 .. Len(stream)
      /\ stream' \in Seq(E) /\ Len(stream') = Len(stream) + 1 /\ DOMAIN stream' = 1 .. Len(stream) + 1
      /\ \A i \in 1 .. Len(stream) : stream'[i] = stream[i]
      /\ stream'[Len(stream) + 1] = e
  BY <1>1, AppendProperties, LenProperties DEF XAdd
<1>3. Ids = 1 .. Len(stream) /\ Ids' = Ids \cup {Len(stream) + 1} /\ Len(stream) + 1 \notin Ids
  BY <1>2 DEF Ids
<1>4. UNCHANGED <<group, delivered, batch, consumer, acked, dropped>>
  BY DEF reading
<1>5. batch \in Seq(Ids')
  <2>1. batch \in Seq(Ids)
    BY DEF IngestInv, TypeOK, StreamTypeOK
  <2>2. Len(batch) \in Nat /\ batch \in [1 .. Len(batch) -> Ids]
    BY <2>1, LenProperties
  <2>3. batch \in [1 .. Len(batch) -> Ids']
    BY <1>3, <2>2
  <2>. QED BY <2>2, <2>3
<1>6. StreamTypeOK'
  <2>1. /\ group' \in BOOLEAN /\ delivered' \in 0 .. Len(stream')
        /\ consumer' \in {"off", "create", "read", "ack", "retry", "sleep"}
        /\ acked' \in SUBSET Ids' /\ dropped' \in SUBSET Ids'
    BY <1>2, <1>3, <1>4 DEF IngestInv, TypeOK, StreamTypeOK
  <2>2. batch' \in Seq(Ids')
    BY <1>4, <1>5
  <2>. QED BY <2>1, <2>2 DEF StreamTypeOK
<1>7. StreamInv'
  BY <1>2, <1>4 DEF IngestInv, StreamInv, E
<1>. QED BY <1>2, <1>3, <1>6, <1>7

\* The announcement itself, whether or not its answer arrives.
LEMMA PublishedKeeps ==
  ASSUME IngestInv, NEW r \in Requests, stage[r] = "publish", XAdd(Event(r)),
         UNCHANGED <<source, now, table, initialized, passed, op, attempts, fetched, quoted, refused, offered, reading>>,
         mishaps' \in 0 .. MaxMishaps,
         \/ ~ Announced(r) /\ UNCHANGED <<stage, answer>>
         \/ \E status \in {200, 201, 500} : Ends(r, status)
  PROVE  IngestInv'
<1> DEFINE e == Event(r)
           new == Len(stream) + 1
           E == [by : Requests, candles : Seq(Candle)]
<1>1. /\ e.by = r /\ e \in E
      /\ \A c \in Range(e.candles) : c \in Range(fetched[r])
      /\ IsFiniteSet(Sent(r)) /\ Cardinality(Sent(r)) \in Nat
  BY EventIs
<1>2. /\ StreamTypeOK' /\ StreamInv'
      /\ new \notin Ids /\ Ids' = Ids \cup {new}
      /\ \A i \in Ids : stream'[i] = stream[i]
      /\ stream'[new] = e
  BY <1>1, XAddIs
<1> HIDE DEF e, new
<1>3. op[r] \in {"sync", "raw"} /\ ~ (refused[r] /\ Vendor # "binance") /\ r \in Announcing
  BY DEF IngestInv, RequestInv, Staged, Refused, Announcing
<1>4. VersionsGrow /\ Vendor' = Vendor
  BY NowGrows DEF IngestInv, Vendor
<1>5. /\ Sent(r)' = Sent(r) \cup {new} /\ new \notin Sent(r)
      /\ \A q \in Requests \ {r} : Sent(q)' = Sent(q)
  BY <1>1, <1>2 DEF Sent
<1>6. /\ stage' \in [Requests -> Waiting \cup {"new", "done"}]
      /\ answer' \in [Requests -> {0, 200, 201, 400, 401, 429, 500, 502, 504}]
      /\ stage'[r] \in {"publish", "done"}
      /\ \A q \in Requests \ {r} : stage'[q] = stage[q] /\ answer'[q] = answer[q]
  <2>1. /\ stage \in [Requests -> Waiting \cup {"new", "done"}]
        /\ answer \in [Requests -> {0, 200, 201, 400, 401, 429, 500, 502, 504}]
    BY SMTT(20) DEF IngestInv, TypeOK
  <2>. QED BY <2>1 DEF Ends
<1>7. \A q \in Requests \ {r} : Same(q)
  BY <1>6 DEF Same
<1>8. TypeOK'
  BY <1>2, <1>6 DEF IngestInv, TypeOK
<1>9. ASSUME NEW q \in Requests \ {r} PROVE RequestInv(q)'
  BY <1>4, <1>5, <1>7, OthersKept DEF IngestInv
<1>10. RequestInv(r)'
  <2>1. CASE \E status \in {200, 201, 500} : Ends(r, status)
    <3>1. stage'[r] = "done" /\ op'[r] # "tickers" /\ ~ (refused'[r] /\ Vendor' # "binance")
      BY <1>3, <1>4, <2>1 DEF IngestInv, TypeOK, Ends
    <3>. QED BY <3>1, Ended
  <2>2. CASE ~ Announced(r) /\ UNCHANGED <<stage, answer>>
    <3>1. Staged(r)' /\ Refused(r)' /\ Quoting(r)' /\ Newest(r)' /\ Carried(r)'
      <4>1. RequestInv(r)
        BY DEF IngestInv
      <4>2. r \notin InHand'
        BY <2>2 DEF InHand
      <4>3. Staged(r)' /\ Refused(r)' /\ Quoting(r)'
        BY <1>4, <2>2, <4>1 DEF RequestInv, Staged, Refused, Quoting
      <4>4. Carried(r)'
        BY <1>3, <2>2, <4>1 DEF RequestInv, Carried, Version, Announcing
      <4>. QED BY <4>2, <4>3, <4>4 DEF Newest
    <3>2. op[r] # "sync" /\ Cardinality(Sent(r)) + 1 # Len(fetched[r])
      BY <2>2 DEF Announced, Sent
    <3>3. Cardinality(Sent(r)) < Len(fetched[r]) /\ Len(fetched[r]) \in Nat
      BY LenProperties DEF IngestInv, TypeOK, RequestInv, Counted
    <3>4. Cardinality(Sent(r)') = Cardinality(Sent(r)) + 1
      <4>1. Cardinality(Sent(r) \cup {new}) = Cardinality(Sent(r)) + 1
        <5>1. IsFiniteSet(Sent(r)) /\ new \notin Sent(r)
          BY <1>1, <1>5
        <5>. QED BY <5>1, FS_AddElement, ZenonT(30)
      <4>. QED BY <1>5, <4>1
    <3>5. Counted(r)'
      <4>1. Cardinality(Sent(r)') < Len(fetched[r])
        BY <1>1, <3>2, <3>3, <3>4
      <4>. QED BY <2>2, <3>2, <4>1 DEF Counted
    <3>. QED BY <3>1, <3>5 DEF RequestInv
  <2>. QED BY <2>1, <2>2
<1>11. InHand' = InHand /\ Announcing' \subseteq Announcing
  BY <1>6 DEF InHand, Announcing
<1>12. \A c \in Range(e.candles) : c.version <= Version(c.at)
  BY <1>1, <1>3 DEF IngestInv, RequestInv, Carried
<1>13. \A q \in InHand : NotOlder(q, r, fetched[r])
  BY <1>3 DEF IngestInv, Announcements
<1>14. Stored(r, fetched[r])
  BY <1>3 DEF IngestInv, Announcements
<1>15. Announcements'
  <2>1. ASSUME NEW i \in Ids'
        PROVE  /\ \A c \in Range(stream'[i].candles) : c.version <= Version(c.at)'
               /\ \A q \in InHand' : NotOlder(q, stream[i].by, stream[i].candles)'
               /\ Stored(stream[i].by, stream[i].candles)'
    <3>1. CASE i \in Ids
      BY <1>2, <1>11, <3>1 DEF IngestInv, Announcements, NotOlder, Stored, Version
    <3>2. CASE i = new
      <4>1. stream'[i] = e
        BY <1>2, <3>2
      <4>2. \A c \in Range(stream'[i].candles) : c.version <= Version(c.at)'
        BY <1>12, <4>1 DEF Version
      <4>3. \A q \in InHand' : NotOlder(q, stream[i].by, stream[i].candles)'
        BY <1>1, <1>11, <1>13, <4>1 DEF NotOlder
      <4>4. Stored(stream[i].by, stream[i].candles)'
        BY <1>1, <1>14, <4>1 DEF Stored
      <4>. QED BY <4>2, <4>3, <4>4
    <3>. QED BY <1>2, <3>1, <3>2
  <2>2. ASSUME NEW p \in Announcing'
        PROVE  Stored(p, fetched[p])' /\ \A q \in InHand' : NotOlder(q, p, fetched[p])'
    BY <1>11 DEF IngestInv, Announcements, NotOlder, Stored
  <2>. QED BY <2>1, <2>2 DEF Announcements
<1>. QED BY <1>2, <1>8, <1>9, <1>10, <1>15 DEF IngestInv

LEMMA InsertKeeps ==
  ASSUME IngestInv, NEW r \in Requests, Insert(r)
  PROVE  IngestInv'
<1>1. /\ stage[r] = "insert" /\ Inserted(r)
      /\ UNCHANGED <<source, now, op, attempts, fetched, quoted, refused>> /\ UNCHANGED streamVars
      /\ stage' = [stage EXCEPT ![r] = "publish"] /\ answer' = [answer EXCEPT ![r] = 0]
  BY GoesOn DEF Insert
<1>2. StreamTypeOK' /\ StreamInv' /\ stream' = stream /\ \A q \in Requests : Sent(q)' = Sent(q)
  BY <1>1, StreamSame DEF streamVars
<1>. QED BY <1>1, <1>2, InsertedKeeps

LEMMA PublishKeeps ==
  ASSUME IngestInv, NEW r \in Requests, Publish(r)
  PROVE  IngestInv'
<1>1. /\ stage[r] = "publish" /\ XAdd(Event(r))
      /\ UNCHANGED <<source, now, table, initialized, passed, op, attempts, fetched, quoted, refused, offered, reading, mishaps>>
      /\ \/ ~ Announced(r) /\ UNCHANGED <<stage, answer>>
         \/ \E status \in {200, 201, 500} : Ends(r, status)
  BY DEF Publish, store
<1>2. mishaps' \in 0 .. MaxMishaps
  BY <1>1 DEF IngestInv, TypeOK, StreamTypeOK
<1>. QED BY <1>1, <1>2, PublishedKeeps

LEMMA AnswerLostKeeps ==
  ASSUME IngestInv, NEW r \in Requests, AnswerLost(r)
  PROVE  IngestInv'
<1>1. /\ Ends(r, 500) /\ Mishap
      /\ UNCHANGED <<source, now, op, attempts, fetched, quoted, refused, reading>>
  BY DEF AnswerLost
<1>2. mishaps' \in 0 .. MaxMishaps
  BY <1>1, StreamAssumption DEF Mishap, IngestInv, TypeOK, StreamTypeOK
<1>3. CASE stage[r] = "insert" /\ Inserted(r) /\ UNCHANGED stream
  <2>1. StreamTypeOK' /\ StreamInv' /\ \A q \in Requests : Sent(q)' = Sent(q)
    BY <1>1, <1>3, MishapIs
  <2>2. stage' = [stage EXCEPT ![r] = "done"] /\ answer' = [answer EXCEPT ![r] = 500]
    BY <1>1 DEF Ends
  <2>. QED BY <1>1, <1>3, <2>1, <2>2, InsertedKeeps, ZenonT(30)
<1>4. CASE stage[r] = "publish" /\ XAdd(Event(r)) /\ UNCHANGED <<store, offered>>
  <2>1. UNCHANGED <<table, initialized, passed, offered>>
    BY <1>4 DEF store
  <2>2. \E status \in {200, 201, 500} : Ends(r, status)
    BY <1>1
  <2>. QED BY <1>1, <1>2, <1>4, <2>1, <2>2, PublishedKeeps
<1>. QED BY <1>3, <1>4 DEF AnswerLost

----------------------------------------------------------------------------
\* The invariant holds, and what follows from it.

LEMMA InitIngest == Init => IngestInv
<1> SUFFICES ASSUME Init PROVE IngestInv
  OBVIOUS
<1>1. /\ stream = <<>> /\ Ids = {} /\ batch = <<>> /\ consumer = "off" /\ \A S : <<>> \in Seq(S)
      /\ Len(stream) = 0
  BY EmptySeq DEF Init, StreamInit, Ids
<1>2. StreamTypeOK /\ StreamInv
  <2>1. group = FALSE /\ delivered = 0 /\ acked = {} /\ dropped = {} /\ mishaps = 0
    BY DEF Init, StreamInit
  <2>2. 0 \in 0 .. MaxMishaps
    BY StreamAssumption
  <2>3. StreamTypeOK
    <3>1. batch \in Seq(Ids)
      BY <1>1
    <3>2. delivered \in 0 .. Len(stream)
      BY <1>1, <2>1
    <3>3. consumer \in {"off", "create", "read", "ack", "retry", "sleep"}
      BY <1>1
    <3>. QED BY <2>1, <2>2, <3>1, <3>2, <3>3 DEF StreamTypeOK
  <2>. QED BY <1>1, <2>3 DEF StreamInv
<1>3. TypeOK
  <2>1. MaxTicks \in Nat /\ Retries \in Nat \ {0}
    BY IngestAssumption
  <2>2. 0 \in 0 .. MaxTicks /\ 0 \in 0 .. Retries
    BY <2>1
  <2>. QED BY <1>1, <1>2, <2>2 DEF Init, TypeOK
<1>4. InHand = {} /\ Announcing = {}
  BY DEF Init, InHand, Announcing
<1>5. ASSUME NEW r \in Requests PROVE RequestInv(r)
  <2>1. /\ stage[r] = "new" /\ op[r] = "none" /\ attempts[r] = 0 /\ quoted[r] = <<>>
        /\ answer[r] = 0 /\ refused[r] = FALSE /\ Sent(r) = {}
    BY <1>1 DEF Init, Sent
  <2>2. Staged(r) /\ Refused(r) /\ Quoting(r) /\ Counted(r)
    BY <2>1 DEF Staged, Refused, Quoting, Counted, AtVendor
  <2>. QED BY <1>4, <2>2 DEF RequestInv, Carried, Newest
<1>6. Announcements
  BY <1>1, <1>4 DEF Announcements
<1>. QED BY <1>2, <1>3, <1>5, <1>6 DEF IngestInv

LEMMA NextKeepsIngest ==
  ASSUME IngestInv, [Next]_vars
  PROVE  IngestInv'
<1>1. CASE \E r \in Requests : \/ Sync(r) \/ IngestRaw(r) \/ Query(r) \/ FetchTickers(r)
                               \/ Serve(r) \/ CallFails(r) \/ AnswerLost(r)
  <2> PICK r \in Requests : \/ Sync(r) \/ IngestRaw(r) \/ Query(r) \/ FetchTickers(r)
                            \/ Serve(r) \/ CallFails(r) \/ AnswerLost(r)
    BY <1>1
  <2>1. CASE Sync(r) \/ Query(r) \/ FetchTickers(r)
    BY <2>1, BeginKeeps
  <2>2. CASE IngestRaw(r)
    BY <2>2, IngestRawKeeps
  <2>3. CASE Fetch(r)
    BY <2>3, FetchKeeps
  <2>4. CASE CreateTable(r)
    BY <2>4, CreateTableKeeps
  <2>5. CASE Insert(r)
    BY <2>5, InsertKeeps
  <2>6. CASE Publish(r)
    BY <2>6, PublishKeeps
  <2>7. CASE ReadRange(r)
    BY <2>7, ReadRangeKeeps
  <2>8. CASE Quote(r)
    BY <2>8, QuoteKeeps
  <2>9. CASE CallFails(r)
    BY <2>9, CallFailsKeeps
  <2>10. CASE AnswerLost(r)
    BY <2>10, AnswerLostKeeps
  <2>. QED BY <2>1, <2>2, <2>3, <2>4, <2>5, <2>6, <2>7, <2>8, <2>9, <2>10 DEF Serve
<1>2. CASE Crash
  BY <1>2, CrashKeeps
<1>3. CASE Tick
  BY <1>3, TickKeeps
<1>4. CASE (StartConsumer \/ Consume \/ RestartConsumer) /\ UNCHANGED <<source, now, store, request>>
  BY <1>4, ConsumerKeeps
<1>5. CASE UNCHANGED vars
  <2>1. UNCHANGED <<source, now, store, request, stream>> /\ UNCHANGED streamVars
    BY <1>5 DEF vars, streamVars
  <2>. QED BY <2>1, StreamSame, ReadingKeeps
<1>. QED BY <1>1, <1>2, <1>3, <1>4, <1>5 DEF Next

\* From every initial state and through every step, the requests, the table and
\* the stream stay in step with each other.
THEOREM IngestIsInvariant == Spec => []IngestInv
  BY InitIngest, NextKeepsIngest, PTL DEF Spec

\* CandleIngestService, the adapters, the store and the bus never hold anything
\* but what their types say, whatever the vendor replies and whatever fails.
THEOREM IngestTypes == Spec => []TypeOK
<1>1. IngestInv => TypeOK
  BY DEF IngestInv
<1>. QED BY <1>1, IngestIsInvariant, PTL

\* What fetch_candles and fetch_tickers return is what the vendor sent: candles
\* in ascending time and the newest ones, tickers of all symbols or of none.
THEOREM FetchesAreWhole == Spec => []FetchedIsWhole
<1>1. ASSUME IngestInv PROVE FetchedIsWhole
  <2>1. ASSUME NEW r \in InHand
        PROVE  /\ Range(fetched[r]) \subseteq offered[r]
               /\ \A i, j \in DOMAIN fetched[r] : i < j => fetched[r][i].at < fetched[r][j].at
               /\ \A c \in offered[r] : c.at <= Last(fetched[r]).at
    BY <1>1 DEF IngestInv, RequestInv, Carried, Newest, InHand
  <2>2. CandlesAreNewest
    BY <2>1 DEF CandlesAreNewest
  <2>3. TickersAreWhole
    BY <1>1 DEF IngestInv, RequestInv, Quoting, TickersAreWhole
  <2>. QED BY <2>2, <2>3 DEF FetchedIsWhole
<1>. QED BY <1>1, IngestIsInvariant, PTL

\* Whoever hears of a candle by the stream finds its bar in market_candles as it
\* was announced or later, but for the rows of requests that had fetched before.
THEOREM AnnouncementsAreStored == Spec => []AnnouncedIsStored
<1>1. ASSUME IngestInv PROVE AnnouncedIsStored
  BY <1>1 DEF IngestInv, Announcements, Stored, AnnouncedIsStored
<1>. QED BY <1>1, IngestIsInvariant, PTL

\* The policy sends nothing again that a vendor other than Binance refused, and
\* the client hears that the request is at fault.
THEOREM RefusalsEnd == Spec => RefusalsAreFinal
<1> DEFINE Final == \A r \in Requests :
              /\ refused[r] /\ Vendor # "binance" => attempts'[r] = attempts[r]
              /\ refused'[r] /\ Vendor # "binance" => answer'[r] \in 400 .. 499
<1>1. ASSUME IngestInv, IngestInv', [Next]_vars PROVE Final
  <2> SUFFICES ASSUME NEW r \in Requests
               PROVE  /\ refused[r] /\ Vendor # "binance" => attempts'[r] = attempts[r]
                      /\ refused'[r] /\ Vendor # "binance" => answer'[r] \in 400 .. 499
    OBVIOUS
  <2>1. Vendor' = Vendor
    BY <1>1 DEF Next, Serve, Sync, IngestRaw, Query, FetchTickers, Fetch, CreateTable, Insert, Publish,
                ReadRange, Quote, CallFails, AnswerLost, Crash, Tick, vars, Vendor
  <2>2. refused'[r] /\ Vendor # "binance" => answer'[r] \in 400 .. 499
    BY <1>1, <2>1 DEF IngestInv, RequestInv, Refused
  <2>3. ASSUME refused[r], Vendor # "binance" PROVE attempts'[r] = attempts[r]
    <3>1. stage[r] = "done" /\ attempts \in [Requests -> 0 .. Retries]
      BY <1>1, <2>3 DEF IngestInv, RequestInv, Refused, TypeOK
    <3>2. \/ attempts' = attempts
          \/ \E q \in Requests : Fetch(q) \/ Quote(q)
      BY <1>1 DEF Next, Serve, Sync, IngestRaw, Query, FetchTickers, CreateTable, Insert, Publish,
                  ReadRange, CallFails, AnswerLost, Crash, Tick, vars, request
    <3>3. ASSUME NEW q \in Requests, Fetch(q) \/ Quote(q) PROVE attempts'[r] = attempts[r]
      <4>1. q # r
        BY <3>1, <3>3 DEF Fetch, Quote
      <4>2. \E v : attempts' = [attempts EXCEPT ![q] = v]
        <5>1. CASE Fetch(q)
          BY <5>1 DEF Fetch
        <5>2. CASE Quote(q)
          BY <5>2 DEF Quote
        <5>. QED BY <3>3, <5>1, <5>2
      <4>. QED BY <3>1, <4>1, <4>2
    <3>. QED BY <3>2, <3>3
  <2>. QED BY <2>2, <2>3
<1>2. ASSUME IngestInv, IngestInv', [Next]_vars PROVE [Final]_vars
  BY <1>1, <1>2
<1>. QED BY <1>2, IngestIsInvariant, PTL DEF Spec, RefusalsAreFinal

----------------------------------------------------------------------------
\* The consumer forgets no entry.

\* Of every entry the group was given it is known what became of it.
EntriesAreAccounted ==
  /\ 1 .. delivered = acked \cup dropped \cup Held
  /\ consumer \notin {"ack", "retry"} => batch = <<>>

\* Only the consumer reads.
LEMMA OthersDoNotRead ==
  ASSUME [Next]_vars, ~ (StartConsumer \/ Consume \/ RestartConsumer)
  PROVE  UNCHANGED reading
<1>1. ASSUME NEW r \in Requests,
             \/ Sync(r) \/ IngestRaw(r) \/ Query(r) \/ FetchTickers(r)
             \/ Serve(r) \/ CallFails(r) \/ AnswerLost(r)
      PROVE  UNCHANGED reading
  BY <1>1 DEF Sync, IngestRaw, Query, FetchTickers, Serve, Fetch, CreateTable, Insert, Publish,
              ReadRange, Quote, CallFails, AnswerLost, streamVars
<1>2. ASSUME Crash \/ Tick \/ UNCHANGED vars PROVE UNCHANGED reading
  BY <1>2 DEF Crash, Tick, vars, streamVars
<1>. QED BY <1>1, <1>2 DEF Next

\* The consumer's hand: the entry it works on and the rest of the batch.
LEMMA HeldIs ==
  ASSUME NEW S, batch \in Seq(S), batch # <<>>
  PROVE  Held = {Head(batch)} \cup {Tail(batch)[i] : i \in DOMAIN Tail(batch)}
<1>1. /\ Len(batch) \in Nat \ {0} /\ DOMAIN batch = 1 .. Len(batch)
      /\ Head(batch) = batch[1] /\ Len(Tail(batch)) = Len(batch) - 1
      /\ DOMAIN Tail(batch) = 1 .. Len(batch) - 1
      /\ \A i \in 1 .. Len(batch) - 1 : Tail(batch)[i] = batch[i + 1]
  <2>1. Len(batch) \in Nat /\ DOMAIN batch = 1 .. Len(batch) /\ Len(batch) # 0
    BY LenProperties, EmptySeq
  <2>2. Tail(batch) \in Seq(S) /\ Head(batch) = batch[1] /\ Len(Tail(batch)) = Len(batch) - 1
        /\ \A i \in 1 .. Len(Tail(batch)) : Tail(batch)[i] = batch[i + 1]
    BY HeadTailProperties
  <2>3. DOMAIN Tail(batch) = 1 .. Len(Tail(batch))
    BY <2>2, LenProperties
  <2>. QED BY <2>1, <2>2, <2>3
<1>2. \A i \in 1 .. Len(batch) : i = 1 \/ (i - 1 \in 1 .. Len(batch) - 1 /\ i = (i - 1) + 1)
  BY <1>1
<1>3. \A i \in 1 .. Len(batch) - 1 : i + 1 \in 1 .. Len(batch)
  BY <1>1
<1>4. 1 \in 1 .. Len(batch)
  BY <1>1
<1>5. ASSUME NEW x \in Held PROVE x \in {Head(batch)} \cup {Tail(batch)[i] : i \in DOMAIN Tail(batch)}
  <2>1. PICK i \in 1 .. Len(batch) : x = batch[i]
    BY <1>1 DEF Held
  <2>2. CASE i = 1
    BY <1>1, <2>1, <2>2
  <2>3. CASE i # 1
    <3>1. i - 1 \in DOMAIN Tail(batch) /\ Tail(batch)[i - 1] = batch[i]
      BY <1>1, <1>2, <2>3
    <3>. QED BY <2>1, <3>1
  <2>. QED BY <2>2, <2>3
<1>6. ASSUME NEW x \in {Head(batch)} \cup {Tail(batch)[i] : i \in DOMAIN Tail(batch)} PROVE x \in Held
  BY <1>1, <1>3, <1>4 DEF Held
<1>. QED BY <1>5, <1>6

\* Each await of the consumer keeps the account.
LEMMA ConsumerAccounts ==
  ASSUME IngestInv, EntriesAreAccounted, StartConsumer \/ Consume \/ RestartConsumer
  PROVE  EntriesAreAccounted'
<1>1. /\ batch \in Seq(Ids) /\ delivered \in Nat /\ stream \in Seq([by : Requests, candles : Seq(Candle)])
      /\ consumer \in {"ack", "retry"} => batch # <<>>
      /\ StreamTypeOK
  BY LenProperties DEF IngestInv, TypeOK, StreamTypeOK, StreamInv
<1>2. Held = IF batch = <<>> THEN {} ELSE {Head(batch)} \cup {Tail(batch)[i] : i \in DOMAIN Tail(batch)}
  <2>1. CASE batch = <<>>
    BY <2>1 DEF Held
  <2>2. CASE batch # <<>>
    BY <1>1, <2>2, HeldIs
  <2>. QED BY <2>1, <2>2
<1>3. 1 .. delivered + Len(Fresh) = 1 .. delivered \cup {Fresh[i] : i \in DOMAIN Fresh}
  <2> DEFINE n == IF Len(stream) - delivered < BatchSize THEN Len(stream) - delivered ELSE BatchSize
  <2>1. Len(stream) \in Nat /\ delivered <= Len(stream)
    BY <1>1, LenProperties DEF StreamTypeOK
  <2>2. n \in Nat
    BY <1>1, <2>1, StreamAssumption
  <2>3. Fresh = [i \in 1 .. n |-> delivered + i]
    BY DEF Fresh
  <2> HIDE DEF n
  <2>4. Len(Fresh) = n
    BY <2>2, <2>3
  <2>5. \A k \in 1 .. delivered + n : k \in 1 .. delivered \/ (k - delivered \in 1 .. n /\ k = delivered + (k - delivered))
    BY <1>1, <2>2
  <2>6. {Fresh[i] : i \in DOMAIN Fresh} = {delivered + i : i \in 1 .. n}
    BY <2>3
  <2>7. \A i \in 1 .. n : delivered + i \in 1 .. delivered + n
    BY <1>1, <2>2
  <2>8. \A k \in 1 .. delivered : k \in 1 .. delivered + n
    BY <1>1, <2>2
  <2>9. ASSUME NEW k \in 1 .. delivered + n PROVE k \in 1 .. delivered \cup {delivered + i : i \in 1 .. n}
    BY <2>5
  <2>. QED BY <2>4, <2>6, <2>7, <2>8, <2>9
<1>4. CASE CreateGroup
  BY <1>4 DEF CreateGroup, EntriesAreAccounted, Held
<1>5. CASE ReadBatch
  <2>1. batch = <<>> /\ batch' = Fresh /\ delivered' = delivered + Len(Fresh) /\ UNCHANGED <<acked, dropped>>
        /\ consumer' = "ack"
    BY <1>5 DEF ReadBatch, EntriesAreAccounted
  <2>2. Held = {} /\ Held' = {Fresh[i] : i \in DOMAIN Fresh}
    BY <2>1 DEF Held
  <2>. QED BY <1>3, <2>1, <2>2 DEF EntriesAreAccounted
<1>6. CASE ReadFails
  <2>1. /\ batch = <<>> /\ UNCHANGED <<batch, acked>> /\ Held' = Held /\ Held = {}
        /\ \/ UNCHANGED <<delivered, dropped>>
           \/ /\ delivered' = delivered + Len(Fresh)
              /\ dropped' = dropped \cup {Fresh[i] : i \in DOMAIN Fresh}
    BY <1>6 DEF ReadFails, EntriesAreAccounted, Held
  <2>2. CASE UNCHANGED <<delivered, dropped>>
    BY <2>1, <2>2 DEF EntriesAreAccounted
  <2>3. CASE /\ delivered' = delivered + Len(Fresh)
             /\ dropped' = dropped \cup {Fresh[i] : i \in DOMAIN Fresh}
    BY <1>3, <2>1, <2>3 DEF EntriesAreAccounted
  <2>. QED BY <2>1, <2>2, <2>3
<1>7. CASE Ack
  <2>1. /\ batch # <<>> /\ acked' = acked \cup {Head(batch)} /\ batch' = Tail(batch)
        /\ consumer' = (IF Tail(batch) = <<>> THEN "read" ELSE "ack")
        /\ UNCHANGED <<delivered, dropped>>
    BY <1>1, <1>7 DEF Ack, Acknowledged
  <2>2. Held' = {Tail(batch)[i] : i \in DOMAIN Tail(batch)}
    BY <2>1 DEF Held
  <2>3. consumer' \notin {"ack", "retry"} => batch' = <<>>
    BY <2>1
  <2>. QED BY <1>2, <2>1, <2>2, <2>3 DEF EntriesAreAccounted
<1>8. CASE AckFails
  <2>1. /\ batch # <<>> /\ acked' \in {acked, acked \cup {Head(batch)}} /\ delivered' = delivered
        /\ \/ consumer' = "retry" /\ UNCHANGED <<batch, dropped>>
           \/ consumer' = "sleep" /\ batch' = <<>> /\ dropped' = dropped \cup Held
    BY <1>1, <1>8 DEF AckFails, Acknowledged
  <2>2. Head(batch) \in Held
    BY <1>2, <2>1
  <2>3. Held' = IF batch' = <<>> THEN {} ELSE Held
    BY <2>1 DEF Held
  <2>. QED BY <2>1, <2>2, <2>3 DEF EntriesAreAccounted
<1>9. CASE Wakes
  BY <1>9 DEF Wakes, EntriesAreAccounted, Held
<1>10. CASE RestartConsumer
  <2>1. batch' = <<>> /\ dropped' = dropped \cup Held /\ UNCHANGED <<delivered, acked>>
    BY <1>10 DEF RestartConsumer
  <2>2. Held' = {}
    BY <2>1 DEF Held
  <2>. QED BY <2>1, <2>2 DEF EntriesAreAccounted
<1>11. CASE StartConsumer
  BY <1>11 DEF StartConsumer, EntriesAreAccounted, Held
<1>. QED BY <1>4, <1>5, <1>6, <1>7, <1>8, <1>9, <1>10, <1>11 DEF Consume

\* Every entry Redis ever gave the group was acknowledged, is in the hand of
\* consume_stream, or was there when it failed: through failed reads, failed
\* acknowledgements and restarts no entry is passed over.
THEOREM EntriesAccounted == Spec => []EntriesAreAccounted
<1>1. Init => EntriesAreAccounted
  BY DEF Init, StreamInit, EntriesAreAccounted, Held
<1>2. ASSUME IngestInv, EntriesAreAccounted, [Next]_vars PROVE EntriesAreAccounted'
  <2>1. CASE StartConsumer \/ Consume \/ RestartConsumer
    BY <1>2, <2>1, ConsumerAccounts
  <2>2. CASE ~ (StartConsumer \/ Consume \/ RestartConsumer)
    <3>1. UNCHANGED reading
      BY <1>2, <2>2, OthersDoNotRead
    <3>. QED BY <1>2, <3>1 DEF reading, EntriesAreAccounted, Held
  <2>. QED BY <2>1, <2>2
<1>. QED BY <1>1, <1>2, IngestIsInvariant, PTL DEF Spec

----------------------------------------------------------------------------
\* Success is announced.

\* The entry that tells of these candles of the request is in the stream.
Told(r, cs) == \E i \in Ids : stream[i] = [by |-> r, candles |-> cs]

\* Whose candles were stored with success, by a sync or a feed, has them announced, all of them.
SuccessIsAnnounced ==
  \A r \in Requests :
    answer[r] \in {200, 201} /\ fetched[r] # <<>> =>
      /\ op[r] = "sync" => Told(r, fetched[r])
      /\ op[r] = "raw" => \A k \in DOMAIN fetched[r] : Told(r, <<fetched[r][k]>>)

\* A feed announces its candles in order.
Telling(r) ==
  /\ stage[r] \in {"new", "fetch"} => fetched[r] = <<>>
  /\ stage[r] = "publish" /\ op[r] = "raw" => \A k \in 1 .. Cardinality(Sent(r)) : Told(r, <<fetched[r][k]>>)
  /\ answer[r] \in {200, 201} /\ fetched[r] # <<>> =>
       /\ op[r] = "sync" => Told(r, fetched[r])
       /\ op[r] = "raw" => \A k \in DOMAIN fetched[r] : Told(r, <<fetched[r][k]>>)

\* Entries stay.
LEMMA ToldStays ==
  ASSUME Ids \subseteq Ids', \A i \in Ids : stream'[i] = stream[i]
  PROVE  \A r, cs : Told(r, cs) => Told(r, cs)'
  BY DEF Told

\* Nor do other requests' steps take back what a request has announced.
LEMMA SameTells ==
  ASSUME NEW q \in Requests, Telling(q), Same(q), Sent(q)' = Sent(q),
         Ids \subseteq Ids', \A i \in Ids : stream'[i] = stream[i]
  PROVE  Telling(q)'
  BY SMTT(20) DEF Telling, Same, Told

\* A request that has not been answered with success, and does not publish.
LEMMA UntoldTells ==
  ASSUME NEW q \in Requests, stage'[q] # "publish", answer'[q] \notin {200, 201} \/ fetched'[q] = <<>> \/ op'[q] \notin {"sync", "raw"},
         stage'[q] \in {"new", "fetch"} => fetched'[q] = <<>>
  PROVE  Telling(q)'
  BY DEF Telling

\* No other step answers a sync or a feed that has candles with success.
LEMMA RequestTells ==
  ASSUME IngestInv, NEW r \in Requests, Telling(r),
         \/ Sync(r) \/ IngestRaw(r) \/ Query(r) \/ FetchTickers(r)
         \/ Fetch(r) \/ CreateTable(r) \/ Insert(r) \/ ReadRange(r) \/ Quote(r)
         \/ CallFails(r) \/ AnswerLost(r)
  PROVE  Telling(r)'
<1>1. /\ stage \in [Requests -> Waiting \cup {"new", "done"}]
      /\ answer \in [Requests -> {0, 200, 201, 400, 401, 429, 500, 502, 504}]
      /\ op \in [Requests -> {"none", "sync", "raw", "query", "tickers"}]
      /\ fetched \in [Requests -> Seq(Candle)]
      /\ stage[r] # "done" => answer[r] = 0
      /\ stage[r] \in {"new", "fetch"} => fetched[r] = <<>>
  BY DEF IngestInv, TypeOK, RequestInv, Staged, Telling
<1>2. CASE Sync(r)
  <2>1. stage[r] = "new" /\ fetched' = fetched /\ stage' \in {[stage EXCEPT ![r] = "fetch"], [stage EXCEPT ![r] = "done"]}
    BY <1>2 DEF Sync, GoTo, Ends
  <2>. QED BY <1>1, <2>1, UntoldTells
<1>3. CASE IngestRaw(r)
  <2>1. stage[r] = "new" /\ answer[r] = 0
    BY <1>1, <1>3 DEF IngestRaw
  <2>2. ASSUME NEW status, Ends(r, status), UNCHANGED <<fetched, offered>> PROVE Telling(r)'
    <3>1. stage'[r] = "done" /\ fetched'[r] = <<>>
      BY <1>1, <2>1, <2>2 DEF Ends
    <3>. QED BY <3>1, UntoldTells
  <2>3. ASSUME NEW cs, Holds(r, cs) PROVE Telling(r)'
    <3>1. stage'[r] \in {"insert", "table"} /\ answer'[r] = 0
      BY <1>1, <2>1, <2>3 DEF Holds, GoTo
    <3>. QED BY <3>1, UntoldTells
  <2>. QED BY <1>3, <2>2, <2>3 DEF IngestRaw
<1>4. CASE Query(r) \/ FetchTickers(r)
  <2>1. op'[r] \in {"query", "tickers"} /\ stage[r] = "new" /\ fetched' = fetched /\ stage'[r] # "publish"
    BY <1>1, <1>4 DEF Query, FetchTickers, GoTo
  <2>. QED BY <1>1, <2>1, UntoldTells
<1>5. CASE Fetch(r)
  <2>1. stage[r] = "fetch" /\ answer[r] = 0 /\ fetched[r] = <<>>
    BY <1>1, <1>5 DEF Fetch
  <2>2. ASSUME NEW cs, Holds(r, cs) PROVE Telling(r)'
    <3>1. stage'[r] \in {"insert", "table"} /\ answer'[r] = 0
      BY <1>1, <2>1, <2>2 DEF Holds, GoTo
    <3>. QED BY <3>1, UntoldTells
  <2>3. ASSUME fetched' = fetched, UNCHANGED stage \/ \E status : Ends(r, status) PROVE Telling(r)'
    <3>1. stage'[r] \in {"fetch", "done"} /\ fetched'[r] = <<>>
      BY <1>1, <2>1, <2>3 DEF Ends
    <3>. QED BY <3>1, UntoldTells
  <2>. QED BY <1>5, <2>2, <2>3 DEF Fetch
<1>6. CASE CreateTable(r) \/ Insert(r)
  <2>1. answer'[r] = 0 /\ stage'[r] \in {"read", "insert", "publish"} /\ (stage'[r] = "publish" => stage[r] = "insert" /\ Sent(r)' = Sent(r))
    BY <1>1, <1>6, StreamSame DEF CreateTable, Insert, GoTo
  <2>2. CASE stage'[r] # "publish"
    BY <2>1, <2>2, UntoldTells
  <2>3. CASE stage'[r] = "publish"
    <3>1. Sent(r)' = {}
      BY <2>1, <2>3 DEF IngestInv, RequestInv, Counted
    <3>2. Cardinality(Sent(r)') = 0 /\ 1 .. 0 = {}
      BY <3>1, FS_EmptySet
    <3>. QED BY <2>1, <2>3, <3>2 DEF Telling
  <2>. QED BY <2>2, <2>3
<1>7. CASE ReadRange(r) \/ Quote(r)
  <2>1. op'[r] \in {"query", "tickers"} /\ stage'[r] \in {"quote", "done"}
    <3>1. op' = op /\ op[r] \in {"query", "tickers"}
      BY <1>7 DEF ReadRange, Quote, IngestInv, RequestInv, Staged
    <3>2. stage'[r] \in {"quote", "done"}
      BY <1>1, <1>7 DEF ReadRange, Quote, Ends
    <3>. QED BY <3>1, <3>2
  <2>. QED BY <2>1, UntoldTells
<1>8. CASE CallFails(r) \/ AnswerLost(r)
  <2>1. answer'[r] = 500 /\ stage'[r] = "done"
    BY <1>1, <1>8 DEF CallFails, AnswerLost, Ends
  <2>. QED BY <2>1, UntoldTells
<1>. QED BY <1>2, <1>3, <1>4, <1>5, <1>6, <1>7, <1>8

\* A publish tells of the next candle, and the last one ends the request.
LEMMA PublishTells ==
  ASSUME IngestInv, NEW r \in Requests, Telling(r), Publish(r)
  PROVE  /\ Telling(r)'
         /\ Ids \subseteq Ids' /\ \A i \in Ids : stream'[i] = stream[i]
         /\ \A q \in Requests \ {r} : Sent(q)' = Sent(q)
<1> DEFINE e == Event(r)
           new == Len(stream) + 1
           n == Cardinality(Sent(r))
<1>1. /\ stage[r] = "publish" /\ XAdd(e) /\ op[r] \in {"sync", "raw"} /\ answer[r] = 0
      /\ UNCHANGED <<op, fetched, reading, mishaps>>
      /\ IF Announced(r) THEN Ends(r, IF op[r] = "sync" THEN 201 ELSE 200) ELSE UNCHANGED <<stage, answer>>
  BY DEF Publish, IngestInv, RequestInv, Staged
<1>2. /\ e.by = r /\ e \in [by : Requests, candles : Seq(Candle)]
      /\ IsFiniteSet(Sent(r)) /\ n \in Nat
      /\ e = [by |-> r, candles |-> IF op[r] = "sync" THEN fetched[r] ELSE <<fetched[r][n + 1]>>]
  BY <1>1, EventIs
<1>3. mishaps' \in 0 .. MaxMishaps
  BY <1>1 DEF IngestInv, TypeOK, StreamTypeOK
<1> HIDE DEF e
<1>4. /\ new \notin Ids /\ Ids' = Ids \cup {new} /\ stream'[new] = e
      /\ \A i \in Ids : stream'[i] = stream[i]
  BY <1>1, <1>2, <1>3, XAddIs
<1> HIDE DEF new
<1>5. /\ Sent(r)' = Sent(r) \cup {new} /\ new \notin Sent(r)
      /\ \A q \in Requests \ {r} : Sent(q)' = Sent(q)
  BY <1>2, <1>4 DEF Sent
<1>6. Cardinality(Sent(r)') = n + 1
  <2>1. Cardinality(Sent(r) \cup {new}) = n + 1
    BY <1>2, <1>5, FS_AddElement
  <2>. QED BY <1>5, <2>1
<1> HIDE DEF n
<1>7. ASSUME op[r] = "sync" PROVE Told(r, fetched[r])'
  BY <1>1, <1>2, <1>4, <1>7 DEF Told
<1>8. ASSUME op[r] = "raw" PROVE \A k \in 1 .. n + 1 : Told(r, <<fetched[r][k]>>)'
  <2> SUFFICES ASSUME NEW k \in 1 .. n + 1 PROVE Told(r, <<fetched[r][k]>>)'
    OBVIOUS
  <2>1. CASE k = n + 1
    BY <1>1, <1>2, <1>4, <1>8, <2>1 DEF Told
  <2>2. CASE k # n + 1
    <3>1. k \in 1 .. n
      BY <1>2, <2>2
    <3>2. Told(r, <<fetched[r][k]>>)
      BY <1>1, <1>8, <3>1 DEF Telling, n
    <3>. QED BY <1>1, <1>4, <3>2 DEF Told
  <2>. QED BY <2>1, <2>2
<1>9. Telling(r)'
  <2>1. /\ stage \in [Requests -> Waiting \cup {"new", "done"}]
        /\ answer \in [Requests -> {0, 200, 201, 400, 401, 429, 500, 502, 504}]
        /\ fetched[r] \in Seq(Candle) /\ DOMAIN fetched[r] = 1 .. Len(fetched[r])
    BY LenProperties DEF IngestInv, TypeOK
  <2>2. CASE Announced(r)
    <3>1. stage'[r] = "done"
      BY <1>1, <2>1, <2>2 DEF Ends
    <3>2. op[r] = "raw" => n + 1 = Len(fetched[r])
      BY <2>2 DEF Announced, n, Sent
    <3>3. op[r] = "raw" => \A k \in DOMAIN fetched[r] : Told(r, <<fetched[r][k]>>)'
      BY <1>8, <2>1, <3>2
    <3>. QED BY <1>1, <1>7, <3>1, <3>3 DEF Telling
  <2>3. CASE ~ Announced(r)
    <3>1. UNCHANGED <<stage, answer>> /\ op[r] = "raw"
      BY <1>1, <2>3 DEF Announced
    <3>. QED BY <1>1, <1>6, <1>8, <3>1 DEF Telling
  <2>. QED BY <2>2, <2>3
<1>. QED BY <1>4, <1>5, <1>9

\* A step of one request is none of the others', and entries stay.
LEMMA OneAtATime ==
  ASSUME IngestInv, NEW r \in Requests,
         \/ Sync(r) \/ IngestRaw(r) \/ Query(r) \/ FetchTickers(r)
         \/ Serve(r) \/ CallFails(r) \/ AnswerLost(r)
  PROVE  /\ \A q \in Requests \ {r} : Same(q) /\ Sent(q)' = Sent(q)
         /\ Ids \subseteq Ids' /\ \A i \in Ids : stream'[i] = stream[i]
<1>1. \A q \in Requests \ {r} : Same(q)
  <2>1. /\ UNCHANGED op \/ \E v : op' = [op EXCEPT ![r] = v]
        /\ UNCHANGED stage \/ \E v : stage' = [stage EXCEPT ![r] = v]
        /\ UNCHANGED attempts \/ \E v : attempts' = [attempts EXCEPT ![r] = v]
        /\ UNCHANGED fetched \/ \E v : fetched' = [fetched EXCEPT ![r] = v]
        /\ UNCHANGED quoted \/ \E v : quoted' = [quoted EXCEPT ![r] = v]
        /\ UNCHANGED answer \/ \E v : answer' = [answer EXCEPT ![r] = v]
        /\ UNCHANGED refused \/ \E v : refused' = [refused EXCEPT ![r] = v]
        /\ UNCHANGED offered \/ \E v : offered' = [offered EXCEPT ![r] = v]
    <3>1. CASE Sync(r) \/ Query(r) \/ FetchTickers(r)
      BY <3>1 DEF Sync, Query, FetchTickers, GoTo, Ends
    <3>2. CASE IngestRaw(r)
      BY <3>2 DEF IngestRaw, Holds, GoTo, Ends
    <3>3. CASE Fetch(r)
      BY <3>3 DEF Fetch, Holds, GoTo, Ends
    <3>4. CASE CreateTable(r) \/ ReadRange(r) \/ CallFails(r)
      BY <3>4 DEF CreateTable, ReadRange, CallFails, GoTo, Ends
    <3>5. CASE Insert(r) \/ Publish(r) \/ AnswerLost(r)
      BY <3>5 DEF Insert, Publish, AnswerLost, Inserted, GoTo, Ends
    <3>6. CASE Quote(r)
      BY <3>6, ZenonT(30) DEF Quote, Ends
    <3>. QED BY <3>1, <3>2, <3>3, <3>4, <3>5, <3>6 DEF Serve
  <2>2. /\ op \in [Requests -> {"none", "sync", "raw", "query", "tickers"}]
        /\ stage \in [Requests -> Waiting \cup {"new", "done"}]
        /\ attempts \in [Requests -> 0 .. Retries]
        /\ fetched \in [Requests -> Seq(Candle)]
        /\ quoted \in [Requests -> Seq(Range(Asked))]
        /\ answer \in [Requests -> {0, 200, 201, 400, 401, 429, 500, 502, 504}]
        /\ refused \in [Requests -> BOOLEAN]
        /\ offered \in [Requests -> SUBSET Candle]
    BY DEF IngestInv, TypeOK
  <2>. QED BY <2>1, <2>2 DEF Same
<1>2. CASE stream' = stream
  BY <1>1, <1>2 DEF Sent, Ids
<1>3. CASE stage[r] = "publish" /\ XAdd(Event(r)) /\ UNCHANGED reading /\ mishaps' \in 0 .. MaxMishaps
  <2>1. Event(r).by = r /\ Event(r) \in [by : Requests, candles : Seq(Candle)]
    BY <1>3, EventIs
  <2>2. /\ Ids' = Ids \cup {Len(stream) + 1} /\ Len(stream) + 1 \notin Ids
        /\ \A i \in Ids : stream'[i] = stream[i]
        /\ stream'[Len(stream) + 1] = Event(r)
    BY <1>3, <2>1, XAddIs
  <2>3. \A q \in Requests \ {r} : Sent(q)' = Sent(q)
    BY <2>1, <2>2 DEF Sent
  <2>. QED BY <1>1, <2>2, <2>3
<1>4. \/ stream' = stream
      \/ stage[r] = "publish" /\ XAdd(Event(r)) /\ UNCHANGED reading /\ mishaps' \in 0 .. MaxMishaps
  <2>0. mishaps \in 0 .. MaxMishaps /\ MaxMishaps \in Nat
    BY StreamAssumption DEF IngestInv, TypeOK, StreamTypeOK
  <2>1. CASE Publish(r)
    BY <2>0, <2>1 DEF Publish
  <2>2. CASE AnswerLost(r)
    BY <2>0, <2>2 DEF AnswerLost, Mishap
  <2>3. CASE ~ Publish(r) /\ ~ AnswerLost(r)
    BY <2>3 DEF Sync, IngestRaw, Query, FetchTickers, Serve, Fetch, CreateTable, Insert, ReadRange,
                Quote, CallFails, streamVars
  <2>. QED BY <2>1, <2>2, <2>3
<1>. QED BY <1>1, <1>2, <1>3, <1>4

AllTell == \A r \in Requests : Telling(r)

\* Every step keeps all requests' accounts.
LEMMA NextTells ==
  ASSUME IngestInv, AllTell, [Next]_vars
  PROVE  AllTell'
<1>0. \A r \in Requests : Telling(r)
  BY DEF AllTell
<1>1. ASSUME NEW r \in Requests,
             \/ Sync(r) \/ IngestRaw(r) \/ Query(r) \/ FetchTickers(r)
             \/ Serve(r) \/ CallFails(r) \/ AnswerLost(r)
      PROVE  \A q \in Requests : Telling(q)'
  <2>1. \A q \in Requests \ {r} : Telling(q)'
    BY <1>0, <1>1, OneAtATime, SameTells
  <2>2. Telling(r)'
    <3>1. CASE Publish(r)
      BY <1>0, <3>1, PublishTells
    <3>2. CASE ~ Publish(r)
      BY <1>0, <1>1, <3>2, RequestTells DEF Serve
    <3>. QED BY <3>1, <3>2
  <2>. QED BY <2>1, <2>2
<1>2. ASSUME Crash PROVE \A q \in Requests : Telling(q)'
  <2>1. /\ stage' = [r \in Requests |-> IF stage[r] \in Waiting THEN "done" ELSE stage[r]]
        /\ UNCHANGED <<op, attempts, fetched, quoted, answer, refused, offered, stream>>
    BY <1>2 DEF Crash
  <2> SUFFICES ASSUME NEW q \in Requests PROVE Telling(q)'
    OBVIOUS
  <2>2. CASE stage[q] \in Waiting
    <3>1. stage'[q] = "done" /\ answer'[q] = 0
      BY <2>1, <2>2 DEF IngestInv, RequestInv, Staged, Waiting, AtVendor
    <3>. QED BY <3>1, UntoldTells
  <2>3. CASE stage[q] \notin Waiting
    <3>1. Same(q) /\ Sent(q)' = Sent(q) /\ Ids' = Ids
      BY <2>1, <2>3 DEF Same, Sent, Ids
    <3>. QED BY <1>0, <2>1, <3>1, SameTells
  <2>. QED BY <2>2, <2>3
<1>3. ASSUME Tick \/ UNCHANGED vars \/ ((StartConsumer \/ Consume \/ RestartConsumer) /\ UNCHANGED <<source, now, store, request>>)
      PROVE  \A q \in Requests : Telling(q)'
  <2>1. UNCHANGED request /\ stream' = stream
    BY <1>3 DEF Tick, vars, streamVars, StartConsumer, Consume, CreateGroup, ReadBatch, ReadFails, Ack, AckFails, Wakes, RestartConsumer
  <2>2. ASSUME NEW q \in Requests PROVE Same(q) /\ Sent(q)' = Sent(q) /\ Ids' = Ids
    BY <2>1 DEF request, Same, Sent, Ids
  <2>. QED BY <1>0, <2>1, <2>2, SameTells
<1>4. \A q \in Requests : Telling(q)'
  BY <1>1, <1>2, <1>3 DEF Next
<1>. QED BY <1>4 DEF AllTell

\* A client that is told of success may rely on it: of what sync and ingest_raw
\* stored all is on the stream, in one event or in one for each candle.
THEOREM SuccessAnnounced == Spec => []SuccessIsAnnounced
<1>1. Init => AllTell
  BY DEF Init, AllTell, Telling
<1>2. AllTell => SuccessIsAnnounced
  BY DEF AllTell, Telling, SuccessIsAnnounced
<1>. QED BY <1>1, <1>2, NextTells, IngestIsInvariant, PTL DEF Spec

----------------------------------------------------------------------------
\* Rows go back only to what was seen before.

\* A bar keeps its row, and the row does not get older but by a request that
\* had fetched before the row was appended.
RowsOnlyGoBackToTheSeen ==
  \A bar \in Bars : table[bar] # NoRow =>
    /\ table'[bar] # NoRow
    /\ table'[bar].version >= table[bar].version \/ table[bar].by \in passed[table'[bar].by]

\* What rows and requests have of each other.
Rows ==
  \A bar \in Bars : table[bar] # NoRow =>
    /\ table[bar].version <= Version(bar)
    /\ \A r \in InHand : \A d \in Range(fetched[r]) :
         d.at = bar => d.version >= table[bar].version \/ table[bar].by \in passed[r]

\* What is fetched is as the market stands.
LEMMA FetchedNow ==
  ASSUME IngestInv, NEW r \in Requests, Fetch(r) \/ IngestRaw(r), r \in InHand'
  PROVE  \A d \in Range(fetched'[r]) : d.version = Version(d.at)
<1>1. /\ now \in 0 .. MaxTicks /\ source \in Sources
      /\ stage \in [Requests -> Waiting \cup {"new", "done"}] /\ fetched \in [Requests -> Seq(Candle)]
      /\ stage[r] \in {"new", "fetch"}
  BY DEF IngestInv, TypeOK, Fetch, IngestRaw
<1>2. stage'[r] \in {"table", "insert"}
  BY DEF InHand
<1>3. CASE Fetch(r)
  <2>1. PICK reply \in Replies(Vendor, Offers), limit \in Limits :
          LET result == Attempted(Vendor, reply, limit)
          IN \/ /\ result.candles # <<>> /\ Holds(r, result.candles)
             \/ Ends(r, 201)
             \/ UNCHANGED <<stage, answer>>
             \/ Ends(r, HttpStatusFor(Wrapped(result.code)))
    BY <1>3 DEF Fetch
  <2> DEFINE cs == Attempted(Vendor, reply, limit).candles
  <2>2. ~ UNCHANGED stage /\ \A status : ~ Ends(r, status)
    BY <1>1, <1>2 DEF Ends
  <2>3. cs # <<>> /\ Holds(r, cs)
    BY <2>1, <2>2
  <2>4. Answers(reply, Attempted(Vendor, reply, limit))
    BY <1>1, AdaptersAnswer, OffersAre, IngestAssumption
  <2>5. AsSent(reply.rows) /\ Good(cs, reply.rows)
    BY <2>3, <2>4 DEF Answers
  <2>6. AsSent(reply.rows)
    BY <2>5
  <2> HIDE DEF cs
  <2>7. fetched'[r] = cs
    BY <1>1, <2>3 DEF Holds
  <2> SUFFICES ASSUME NEW d \in Range(cs) PROVE d.version = Version(d.at)
    BY <2>7
  <2>8. d \in Sold(reply.rows)
    BY <2>5 DEF Good, Range
  <2>9. PICK i \in DOMAIN reply.rows : d = CandleOf(reply.rows[i])
    BY <1>1, <2>6, <2>8, RowsAre
  <2>10. d.at = reply.rows[i].at /\ d.version = reply.rows[i].version
    BY <2>9 DEF CandleOf
  <2>. QED BY <2>6, <2>10 DEF AsSent
<1>4. CASE IngestRaw(r)
  <2>1. \A status : ~ Ends(r, status)
    BY <1>1, <1>2 DEF Ends
  <2>2. PICK from \in Opened :
          Holds(r, [i \in 1 .. Max(Opened) - from + 1 |-> CandleOf(Offer(from + i - 1, "whole"))])
    BY <1>4, <2>1 DEF IngestRaw
  <2> DEFINE cs == [i \in 1 .. Max(Opened) - from + 1 |-> CandleOf(Offer(from + i - 1, "whole"))]
  <2>3. \A i \in DOMAIN cs : cs[i].version = Version(cs[i].at)
    BY <1>1, FeedIs
  <2>4. Holds(r, cs)
    BY <2>2
  <2> HIDE DEF cs
  <2>5. fetched'[r] = cs
    BY <1>1, <2>4 DEF Holds
  <2>. QED BY <2>3, <2>5 DEF Range
<1>. QED BY <1>3, <1>4

\* The steps that do not append.
LEMMA QuietRows ==
  ASSUME IngestInv, Rows, VersionsGrow, UNCHANGED <<table, passed>>,
         \A q \in InHand' : \/ q \in InHand /\ fetched'[q] = fetched[q]
                            \/ /\ q \in Requests /\ fetched'[q] \in Seq(Candle)
                               /\ \A d \in Range(fetched'[q]) : d.version = Version(d.at)
  PROVE  Rows' /\ RowsOnlyGoBackToTheSeen
<1>0. \A bar \in Bars : table[bar] # NoRow => table[bar].version \in Int
  BY IngestAssumption DEF IngestInv, TypeOK, Row
<1>1. ASSUME NEW bar \in Bars, table[bar] # NoRow PROVE table[bar].version <= Version(bar)'
  BY <1>0, <1>1 DEF Rows, VersionsGrow
<1>2. ASSUME NEW bar \in Bars, table[bar] # NoRow, NEW q \in InHand', NEW d \in Range(fetched'[q]), d.at = bar
      PROVE  d.version >= table[bar].version \/ table[bar].by \in passed[q]
  <2>1. CASE q \in InHand /\ fetched'[q] = fetched[q]
    BY <1>2, <2>1 DEF Rows
  <2>2. CASE d.version = Version(d.at)
    <3>1. Version(bar) \in Int /\ table[bar].version \in Int /\ table[bar].version <= Version(bar)
      BY <1>0, <1>2 DEF Rows, VersionsGrow
    <3>. QED BY <1>2, <2>2, <3>1
  <2>. QED BY <2>1, <2>2
<1>3. RowsOnlyGoBackToTheSeen
  BY <1>0 DEF RowsOnlyGoBackToTheSeen
<1>4. Rows'
  BY <1>1, <1>2 DEF Rows
<1>. QED BY <1>3, <1>4

\* An append.
LEMMA InsertedRows ==
  ASSUME IngestInv, Rows, NEW r \in Requests, stage[r] = "insert", Inserted(r),
         UNCHANGED <<now, fetched>>, InHand' \subseteq InHand \ {r}
  PROVE  Rows' /\ RowsOnlyGoBackToTheSeen
<1> DEFINE cs == fetched[r]
<1>1. r \in InHand /\ InHand \subseteq Requests
  BY DEF IngestInv, RequestInv, Staged, InHand
<1>2. /\ cs \in Seq(Candle)
      /\ \A i, j \in DOMAIN cs : i < j => cs[i].at < cs[j].at
      /\ \A c \in Range(cs) : c.version <= Version(c.at)
  BY <1>1 DEF IngestInv, TypeOK, RequestInv, Carried
<1>3. /\ table' \in [Bars -> Row \cup {NoRow}]
      /\ \A c \in Range(cs) : table'[c.at] = [at |-> c.at, of |-> c.of, version |-> c.version, by |-> r]
      /\ \A bar \in Bars : (\A c \in Range(cs) : c.at # bar) => table'[bar] = table[bar]
  BY <1>2, UpsertIs DEF Inserted, IngestInv
<1>4. /\ \A q \in Requests : passed[q] \subseteq passed'[q]
      /\ \A q \in InHand \ {r} : r \in passed'[q]
  BY DEF Inserted, IngestInv, TypeOK, InHand
<1>5. \A c \in Range(cs) : c \in Candle
  BY <1>2, RangeOfSeq
<1> HIDE DEF cs
<1>6. ASSUME NEW bar \in Bars
      PROVE  /\ table'[bar] # NoRow =>
                  /\ table'[bar].version <= Version(bar)'
                  /\ \A q \in InHand' : \A d \in Range(fetched[q]) :
                       d.at = bar => d.version >= table'[bar].version \/ table'[bar].by \in passed'[q]
             /\ table[bar] # NoRow =>
                  /\ table'[bar] # NoRow
                  /\ table'[bar].version >= table[bar].version \/ table[bar].by \in passed[table'[bar].by]
  <2>1. CASE \E c \in Range(cs) : c.at = bar
    <3>1. PICK c \in Range(cs) : c.at = bar
      BY <2>1
    <3>2. table'[bar].version = c.version /\ table'[bar].by = r /\ c \in Candle
      <4>1. table'[bar] = [at |-> c.at, of |-> c.of, version |-> c.version, by |-> r]
        BY <1>3, <3>1
      <4>. QED BY <1>5, <4>1
    <3>3. table'[bar] \in Row
      <4>1. table'[bar] = [at |-> c.at, of |-> c.of, version |-> c.version, by |-> r]
        BY <1>3, <3>1
      <4>. QED BY <3>2, <4>1 DEF Row, Candle
    <3>4. table'[bar].version <= Version(bar)'
      BY <1>2, <3>1, <3>2 DEF Version
    <3>5. \A q \in InHand' : table'[bar].by \in passed'[q]
      BY <1>4, <3>2
    <3>6. table[bar] # NoRow => c.version >= table[bar].version \/ table[bar].by \in passed[r]
      BY <1>1, <3>1 DEF Rows, cs
    <3>. QED BY <3>2, <3>3, <3>4, <3>5, <3>6, NoRowAssumption
  <2>2. CASE \A c \in Range(cs) : c.at # bar
    <3>1. table'[bar] = table[bar]
      BY <1>3, <2>2
    <3>2. table[bar] # NoRow => table[bar].version \in Int
      BY IngestAssumption DEF IngestInv, TypeOK, Row
    <3>3. table[bar] # NoRow => table[bar].version <= Version(bar)'
      BY DEF Rows, Version
    <3>4. table[bar] # NoRow => \A q \in InHand' : \A d \in Range(fetched[q]) :
            d.at = bar => d.version >= table[bar].version \/ table[bar].by \in passed'[q]
      BY <1>1, <1>4 DEF Rows
    <3>. QED BY <3>1, <3>2, <3>3, <3>4
  <2>. QED BY <2>1, <2>2
<1>. QED BY <1>6 DEF Rows, RowsOnlyGoBackToTheSeen

\* Every step keeps what rows and requests have of each other, and no row goes back.
LEMMA NextKeepsRows ==
  ASSUME IngestInv, Rows, [Next]_vars
  PROVE  Rows' /\ RowsOnlyGoBackToTheSeen
<1>1. now' \in {now, now + 1}
  BY DEF Next, Serve, Sync, IngestRaw, Query, FetchTickers, Fetch, CreateTable, Insert, Publish,
         ReadRange, Quote, CallFails, AnswerLost, Crash, Tick, vars
<1>2. VersionsGrow
  BY <1>1, NowGrows DEF IngestInv
<1>3. ASSUME NEW r \in Requests, Fetch(r) \/ IngestRaw(r) PROVE Rows' /\ RowsOnlyGoBackToTheSeen
  <2>1. UNCHANGED <<table, passed>>
    BY <1>3 DEF Fetch, IngestRaw, store
  <2>2. IngestInv'
    BY <1>3, FetchKeeps, IngestRawKeeps
  <2>3. ASSUME NEW q \in InHand'
        PROVE  \/ q \in InHand /\ fetched'[q] = fetched[q]
               \/ /\ q \in Requests /\ fetched'[q] \in Seq(Candle)
                  /\ \A d \in Range(fetched'[q]) : d.version = Version(d.at)
    <3>1. CASE q = r
      <4>1. \A d \in Range(fetched'[q]) : d.version = Version(d.at)
        BY <1>3, <3>1, FetchedNow
      <4>2. q \in Requests /\ fetched'[q] \in Seq(Candle)
        BY <2>2, <3>1 DEF IngestInv, TypeOK
      <4>. QED BY <4>1, <4>2
    <3>2. CASE q # r
      <4>1. q \in Requests \ {r}
        BY <3>2 DEF InHand
      <4>2. Same(q)
        BY <1>3, <4>1, OneAtATime DEF Serve
      <4>. QED BY <4>2 DEF Same, InHand
    <3>. QED BY <3>1, <3>2
  <2>. QED BY <1>2, <2>1, <2>3, QuietRows
<1>4. ASSUME NEW r \in Requests, Insert(r) \/ (AnswerLost(r) /\ stage[r] = "insert")
      PROVE  Rows' /\ RowsOnlyGoBackToTheSeen
  <2>1. stage[r] = "insert" /\ Inserted(r) /\ UNCHANGED <<now, fetched>>
    BY <1>4 DEF Insert, AnswerLost
  <2>2. stage'[r] \in {"publish", "done"}
    BY <1>4 DEF Insert, AnswerLost, GoTo, Ends, IngestInv, TypeOK
  <2>3. \A q \in Requests \ {r} : Same(q)
    BY <1>4, OneAtATime DEF Serve
  <2>4. InHand' \subseteq InHand \ {r}
    BY <2>2, <2>3 DEF Same, InHand
  <2>. QED BY <2>1, <2>4, InsertedRows
<1>5. ASSUME NEW r \in Requests,
             \/ Sync(r) \/ Query(r) \/ FetchTickers(r) \/ CreateTable(r) \/ Publish(r)
             \/ ReadRange(r) \/ Quote(r) \/ CallFails(r) \/ (AnswerLost(r) /\ stage[r] # "insert")
      PROVE  Rows' /\ RowsOnlyGoBackToTheSeen
  <2>1. UNCHANGED <<table, passed>>
    BY <1>5 DEF Sync, Query, FetchTickers, CreateTable, Publish, ReadRange, Quote, CallFails, AnswerLost, store
  <2>2. \A q \in Requests \ {r} : Same(q)
    BY <1>5, OneAtATime DEF Serve
  <2>3. r \in InHand' => r \in InHand /\ fetched' = fetched
    <3>1. stage \in [Requests -> Waiting \cup {"new", "done"}]
      BY DEF IngestInv, TypeOK
    <3>2. CASE Sync(r) \/ Query(r) \/ FetchTickers(r)
      <4>1. stage'[r] \in {"fetch", "done", "quote", "read"} \/ (stage'[r] = "table" /\ op'[r] = "query")
        BY <3>1, <3>2 DEF Sync, Query, FetchTickers, GoTo, Ends, IngestInv, TypeOK
      <4>. QED BY <4>1 DEF InHand
    <3>3. CASE CreateTable(r)
      BY <3>3 DEF CreateTable, InHand
    <3>4. CASE Publish(r) \/ ReadRange(r) \/ Quote(r) \/ CallFails(r) \/ AnswerLost(r)
      <4>1. stage'[r] \in {"publish", "quote", "done"}
        BY <1>5, <3>1, <3>4 DEF Publish, ReadRange, Quote, CallFails, AnswerLost, Ends
      <4>. QED BY <4>1 DEF InHand
    <3>. QED BY <1>5, <3>2, <3>3, <3>4
  <2>4. \A q \in InHand' : q \in InHand /\ fetched'[q] = fetched[q]
    <3> SUFFICES ASSUME NEW q \in InHand' PROVE q \in InHand /\ fetched'[q] = fetched[q]
      OBVIOUS
    <3>1. CASE q = r
      BY <2>3, <3>1
    <3>2. CASE q # r
      BY <2>2, <3>2 DEF Same, InHand
    <3>. QED BY <3>1, <3>2
  <2>. QED BY <1>2, <2>1, <2>4, QuietRows
<1>6. ASSUME \/ Crash \/ Tick \/ UNCHANGED vars
             \/ (StartConsumer \/ Consume \/ RestartConsumer) /\ UNCHANGED <<source, now, store, request>>
      PROVE  Rows' /\ RowsOnlyGoBackToTheSeen
  <2>1. /\ UNCHANGED <<table, passed, fetched, op>>
        /\ \A q \in Requests : stage'[q] \in {stage[q], "done"}
    BY <1>6 DEF Crash, Tick, vars, store, request
  <2>2. \A q \in InHand' : q \in InHand /\ fetched'[q] = fetched[q]
    BY <2>1 DEF InHand
  <2>. QED BY <1>2, <2>1, <2>2, QuietRows
<1>7. CASE UNCHANGED vars
  BY <1>6, <1>7
<1>. QED BY <1>3, <1>4, <1>5, <1>6, <1>7 DEF Next, Serve

\* An append never takes back what the table knows of a bar, but when the
\* request fetched before the row it replaces was appended: ReplacingMergeTree
\* keeps the row that came last, not the candle that was seen last.
THEOREM RowsStayCurrent == Spec => [][RowsOnlyGoBackToTheSeen]_vars
<1>1. Init => Rows
  BY DEF Init, Rows
<1>2. ASSUME IngestInv, Rows, [Next]_vars PROVE Rows' /\ [RowsOnlyGoBackToTheSeen]_vars
  BY <1>2, NextKeepsRows
<1>. QED BY <1>1, <1>2, IngestIsInvariant, PTL DEF Spec

====
