---- MODULE Portfolio_proofs ----
(***************************************************************************)
(* Lemmas about apply_fill and the rounding of the columns, for every      *)
(* quantity and price.                                                     *)
(***************************************************************************)
EXTENDS Portfolio, TLAPS

\* The column keeps the nearest integer: the error is at most half a unit per
\* lot the sum is divided by.
LEMMA RoundedIsNear ==
  ASSUME NEW n \in Nat, NEW d \in Nat \ {0}
  PROVE  /\ Rounded(n, d) \in Nat
         /\ -d <= 2 * (n - d * Rounded(n, d))
         /\ 2 * (n - d * Rounded(n, d)) <= d
<1> DEFINE a == 2 * n + d
           b == 2 * d
           q == a \div b
<1>1. a \in Nat /\ b \in Nat \ {0}
  OBVIOUS
<1>2. q \in Nat /\ b * q <= a /\ a < b * q + b
  <2> HIDE DEF a, b
  <2>. QED BY <1>1
<1>3. b * q = 2 * (d * q)
  <2>1. q \in Nat BY <1>2
  <2> HIDE DEF q
  <2>. QED BY <2>1
<1> HIDE DEF q
<1>4. d * q \in Int
  BY <1>2
<1>. QED BY <1>2, <1>3, <1>4 DEF Rounded, q

\* A quotient of at least one does not round to nothing.
LEMMA RoundedIsPositive ==
  ASSUME NEW n \in Nat, NEW d \in Nat \ {0}, n >= d
  PROVE  Rounded(n, d) > 0
<1>1. CASE Rounded(n, d) = 0
  <2>1. 2 * (n - d * 0) <= d
    BY <1>1, RoundedIsNear
  <2>. QED BY <2>1
<1>. QED BY <1>1, RoundedIsNear

\* Nor is the error of a signed quotient larger.
LEMMA RoundedSignedIsNear ==
  ASSUME NEW n \in Int, NEW d \in Nat \ {0}
  PROVE  /\ RoundedSigned(n, d) \in Int
         /\ -d <= 2 * (n - d * RoundedSigned(n, d))
         /\ 2 * (n - d * RoundedSigned(n, d)) <= d
<1>1. CASE n < 0
  <2> DEFINE r == Rounded(-n, d)
  <2>1. -n \in Nat
    BY <1>1
  <2>2. r \in Nat /\ -d <= 2 * (-n - d * r) /\ 2 * (-n - d * r) <= d
    BY <2>1, RoundedIsNear
  <2>3. RoundedSigned(n, d) = -r
    BY <1>1 DEF RoundedSigned
  <2> HIDE DEF r
  <2>4. d * r \in Int /\ d * (-r) = -(d * r)
    BY <2>2
  <2>. QED BY <2>2, <2>3, <2>4
<1>2. CASE ~(n < 0)
  <2>1. n \in Nat /\ RoundedSigned(n, d) = Rounded(n, d)
    BY <1>2 DEF RoundedSigned
  <2>. QED BY <2>1, RoundedIsNear
<1>. QED BY <1>1, <1>2

----------------------------------------------------------------------------
\* A fill that opens a position or adds to it: what it costs goes into the
\* entry price, up to the rounding.
LEMMA AveragingFill ==
  ASSUME NEW p \in Position, p.quantity # 0 => p.average > 0,
         NEW signed \in Int, signed # 0, NEW price \in Nat \ {0},
         Averages(p, signed)
  PROVE  LET held == p.quantity + signed
             entry == AveragedEntry(p, signed, price)
             error == p.quantity * p.average + signed * price - held * entry
         IN  /\ held # 0
             /\ entry \in Nat /\ entry > 0
             /\ error \in Int
             /\ -Abs(held) <= 2 * error /\ 2 * error <= Abs(held)
<1> DEFINE old == p.quantity
           held == old + signed
           cost == Abs(old) * p.average + Abs(signed) * price
           entry == Rounded(cost, Abs(held))
<1>1. old \in Int /\ p.average \in Nat
  BY DEF Position
<1>2. old = 0 \/ (old > 0 /\ signed > 0) \/ (old < 0 /\ signed < 0)
  BY <1>1 DEF Averages, SameSign
<1>3. held # 0 /\ Abs(held) \in Nat \ {0} /\ Abs(held) = Abs(old) + Abs(signed)
  BY <1>1, <1>2 DEF Abs
<1>4. cost \in Nat /\ cost >= Abs(held)
  <2>1. Abs(old) \in Nat /\ Abs(signed) \in Nat /\ (old # 0 => p.average >= 1) /\ price >= 1
    BY <1>1 DEF Abs
  <2>2. Abs(signed) * price \in Nat /\ Abs(signed) * price >= Abs(signed)
    BY <2>1
  <2>3. Abs(old) * p.average \in Nat /\ Abs(old) * p.average >= Abs(old)
    BY <1>1, <2>1 DEF Abs
  <2>. QED BY <2>2, <2>3, <2>1, <1>3
<1>5. entry \in Nat /\ entry > 0
  BY <1>3, <1>4, RoundedIsNear, RoundedIsPositive
<1>6. -Abs(held) <= 2 * (cost - Abs(held) * entry) /\ 2 * (cost - Abs(held) * entry) <= Abs(held)
  BY <1>3, <1>4, RoundedIsNear
<1>7. AveragedEntry(p, signed, price) = entry
  BY DEF AveragedEntry
<1> HIDE DEF entry
<1>8. old * p.average + signed * price - held * entry \in {cost - Abs(held) * entry, -(cost - Abs(held) * entry)}
  <2>1. CASE signed > 0
    <3>1. old >= 0
      BY <1>1, <1>2, <2>1
    <3>2. Abs(old) = old /\ Abs(signed) = signed /\ Abs(held) = held
      BY <1>1, <2>1, <3>1 DEF Abs
    <3>. QED BY <3>2, <1>1, <1>5
  <2>2. CASE signed < 0
    <3>1. old <= 0
      BY <1>1, <1>2, <2>2
    <3>2. Abs(old) = -old /\ Abs(signed) = -signed /\ Abs(held) = -held
      BY <1>1, <2>2, <3>1 DEF Abs
    <3>3. (-old) * p.average = -(old * p.average)
      BY <1>1
    <3>4. (-signed) * price = -(signed * price)
      OBVIOUS
    <3>5. (-held) * entry = -(held * entry)
      BY <1>1, <1>5
    <3>6. old * p.average \in Int /\ signed * price \in Int /\ held * entry \in Int
      BY <1>1, <1>5
    <3>. QED BY <3>2, <3>3, <3>4, <3>5, <3>6
  <2>. QED BY <2>1, <2>2
<1>9. cost - Abs(held) * entry \in Int
  BY <1>3, <1>4, <1>5
<1>. QED BY <1>3, <1>5, <1>6, <1>7, <1>8, <1>9

\* The algebra of closing: what is left of the fill when it closes lots at one
\* price and holds the rest at its entry price.
LEMMA ClosingBalances ==
  ASSUME NEW old \in Int, NEW signed \in Int, NEW avg \in Int, NEW price \in Int
  PROVE  /\ (-signed) * (price - avg) + old * avg + signed * price - (old + signed) * avg = 0
         /\ signed * (-(price - avg)) + old * avg + signed * price - (old + signed) * avg = 0
         /\ old * (price - avg) + old * avg + signed * price - (old + signed) * price = 0
         /\ (-old) * (-(price - avg)) + old * avg + signed * price - (old + signed) * price = 0
OBVIOUS

\* A fill in the other direction: the profit of the closed lots and the cost of
\* the remaining ones take up exactly what the fill pays.
LEMMA ClosingFill ==
  ASSUME NEW p \in Position, p.quantity # 0 => p.average > 0,
         NEW signed \in Int, signed # 0, NEW price \in Nat \ {0},
         ~Averages(p, signed)
  PROVE  LET held == p.quantity + signed
             entry == RemainingEntry(p, signed, price)
             profit == ClosedProfit(p, signed, price)
         IN  /\ entry \in Nat
             /\ (held = 0 <=> entry = 0)
             /\ profit \in Int
             /\ profit + p.quantity * p.average + signed * price - held * entry = 0
<1> DEFINE old == p.quantity
           avg == p.average
           held == old + signed
           entry == RemainingEntry(p, signed, price)
           profit == ClosedProfit(p, signed, price)
<1>1. old \in Int /\ avg \in Nat
  BY DEF Position
<1>2. (old > 0 /\ signed < 0) \/ (old < 0 /\ signed > 0)
  BY <1>1 DEF Averages, SameSign
<1>3. avg > 0
  BY <1>2
<1>4. entry \in Nat /\ (held = 0 <=> entry = 0)
  BY <1>1, <1>2, <1>3 DEF RemainingEntry, SameSign
<1>5. CASE SameSign(old, held) \/ held = 0
  <2>1. profit \in {(-signed) * (price - avg), signed * (-(price - avg))}
    BY <1>1, <1>2, <1>5 DEF ClosedProfit, Lesser, Abs, SameSign
  <2>2. held * entry = held * avg
    <3>1. CASE held = 0
      <4>1. 0 * entry = 0 * avg
        BY <1>1, <1>4
      <4>. QED BY <3>1, <4>1
    <3>2. CASE held # 0
      <4>1. entry = avg
        BY <1>5, <3>2 DEF RemainingEntry
      <4>. QED BY <4>1
    <3>. QED BY <3>1, <3>2
  <2>3. profit + old * avg + signed * price - held * avg = 0
    <3> HIDE DEF profit
    <3>. QED BY <1>1, <2>1, ClosingBalances
  <2>. HIDE DEF profit, entry
  <2>4. profit + old * avg + signed * price - held * entry = 0
    BY <2>2, <2>3
  <2>5. profit \in Int
    BY <1>1, <2>1
  <2>. QED BY <1>4, <2>4, <2>5 DEF profit, entry
<1>6. CASE ~SameSign(old, held) /\ held # 0
  <2>1. profit \in {old * (price - avg), (-old) * (-(price - avg))}
    BY <1>1, <1>2, <1>6 DEF ClosedProfit, Lesser, Abs, SameSign
  <2>2. entry = price
    BY <1>6 DEF RemainingEntry
  <2>3. profit + old * avg + signed * price - held * price = 0
    <3> HIDE DEF profit
    <3>. QED BY <1>1, <2>1, ClosingBalances
  <2>4. profit \in Int
    <3> HIDE DEF profit
    <3>. QED BY <1>1, <2>1
  <2>. QED BY <1>4, <2>2, <2>3, <2>4
<1>. QED BY <1>5, <1>6

\* Whatever position apply_fill is given, torn rows included, it returns one.
LEMMA ApplyFillIsAPosition ==
  ASSUME NEW p \in Position, NEW side \in Sides, NEW quantity \in Nat \ {0}, NEW price \in Nat
  PROVE  ApplyFill(p, side, quantity, price) \in Position
<1> DEFINE signed == SignedQuantity(side, quantity)
           held == p.quantity + signed
<1>1. /\ p.quantity \in Int /\ p.average \in Nat /\ p.realized \in Int
      /\ signed \in Int /\ signed # 0 /\ held \in Int
  BY DEF Position, SignedQuantity
<1>. HIDE DEF signed
<1>2. CASE Averages(p, signed)
  <2>1. Abs(held) \in Nat \ {0}
    BY <1>1, <1>2 DEF Averages, SameSign, Abs
  <2>2. Abs(p.quantity) * p.average + Abs(signed) * price \in Nat
    <3>1. Abs(p.quantity) \in Nat /\ Abs(signed) \in Nat
      BY <1>1 DEF Abs
    <3>. QED BY <1>1, <3>1
  <2>3. AveragedEntry(p, signed, price) \in Nat
    BY <2>1, <2>2, RoundedIsNear DEF AveragedEntry
  <2>. QED BY <1>1, <1>2, <2>3 DEF ApplyFill, Position, signed
<1>3. CASE ~Averages(p, signed)
  <2>1. RemainingEntry(p, signed, price) \in Nat
    BY <1>1 DEF RemainingEntry, SameSign
  <2>2. ClosedProfit(p, signed, price) \in Int
    <3>1. Lesser(Abs(p.quantity), Abs(signed)) \in Int /\ price - p.average \in Int
      BY <1>1 DEF Lesser, Abs
    <3>. QED BY <3>1 DEF ClosedProfit
  <2>3. RoundedSigned(p.realized * Scale + ClosedProfit(p, signed, price), Scale) \in Int
    <3>1. p.realized * Scale + ClosedProfit(p, signed, price) \in Int
      BY <1>1, <2>2, ScaleAssumption
    <3>. QED BY <3>1, ScaleAssumption, RoundedSignedIsNear
  <2>. QED BY <1>1, <1>3, <2>1, <2>3 DEF ApplyFill, Position, signed
<1>. QED BY <1>2, <1>3

====
