---- MODULE PositionLedger_proofs ----
(***************************************************************************)
(* For every set of quantities and prices and every number of fills: the   *)
(* types, the accounting identity, the flat position and the bounds of the *)
(* entry price of PositionLedger, and where its profit comes from.         *)
(***************************************************************************)
EXTENDS PositionLedger, Portfolio_proofs

\* What holds of the books at every moment; FlatHasNoEntry is what makes
\* BooksBalance inductive, for the profit of a fill is reckoned from an entry.
IInv == TypeOK /\ FlatHasNoEntry /\ BooksBalance

LEMMA InitBooks == Init => IInv
  BY MaxFillsAssumption, ScaleAssumption
  DEF Init, IInv, TypeOK, FlatHasNoEntry, BooksBalance, Drift, EmptyPosition, Position

LEMMA FillBooks ==
  ASSUME IInv, NEW side \in Sides, NEW quantity \in Quantities, NEW price \in Prices,
         Fill(side, quantity, price)
  PROVE  IInv'
<1> DEFINE signed == SignedQuantity(side, quantity)
           old == position.quantity
           held == old + signed
<1> USE DEF IInv
<1>1. price \in Nat \ {0} /\ quantity \in Nat \ {0} /\ signed \in Int /\ signed # 0
  BY QuantitiesAssumption, PricesAssumption DEF SignedQuantity
<1>2. /\ position \in Position /\ old \in Int /\ position.average \in Nat /\ position.realized \in Int
      /\ fills \in 0..MaxFills /\ cash \in Int /\ rounding \in Nat /\ entries \subseteq Prices
      /\ Scale \in Nat \ {0} /\ Scale * position.realized \in Int
  BY ScaleAssumption DEF TypeOK, Position
<1>3. old # 0 => position.average > 0
  BY <1>2 DEF FlatHasNoEntry
<1>4. fills' \in 0..MaxFills /\ entries' \subseteq Prices /\ cash' = cash - signed * price /\ cash' \in Int
  BY <1>1, <1>2, MaxFillsAssumption DEF Fill
<1>5. Scale * position.realized - (cash + old * position.average) \in Int
      /\ old * position.average \in Int /\ signed * price \in Int
  BY <1>1, <1>2
<1>6. CASE Averages(position, signed)
  <2> DEFINE entry == AveragedEntry(position, signed, price)
             error == old * position.average + signed * price - held * entry
  <2>1. /\ held # 0 /\ entry \in Nat /\ entry > 0 /\ error \in Int
        /\ -Abs(held) <= 2 * error /\ 2 * error <= Abs(held)
    BY <1>1, <1>2, <1>3, <1>6, AveragingFill
  <2>2. position' = [quantity |-> held, average |-> entry, realized |-> position.realized]
    BY <1>6 DEF Fill, ApplyFill
  <2>3. rounding' = rounding + Abs(held) /\ Abs(held) \in Nat
    BY <1>1, <1>2, <1>6 DEF Fill, Abs
  <2>4. held * entry \in Int
    BY <1>1, <1>2, <2>1
  <2>5. Drift' = Drift + error
    <3>1. Drift' = Scale * position.realized - ((cash - signed * price) + held * entry)
      BY <1>4, <2>2 DEF Drift
    <3> HIDE DEF held, entry
    <3>. QED BY <1>2, <1>5, <2>4, <3>1 DEF Drift
  <2>6. BooksBalance'
    <3> HIDE DEF error
    <3>. QED BY <1>2, <1>5, <2>1, <2>3, <2>5 DEF BooksBalance, Drift
  <2>7. TypeOK'
    BY <1>1, <1>2, <1>4, <2>1, <2>2, <2>3 DEF TypeOK, Position
  <2>8. FlatHasNoEntry'
    BY <2>1, <2>2 DEF FlatHasNoEntry
  <2>. QED BY <2>6, <2>7, <2>8
<1>7. CASE ~Averages(position, signed)
  <2> DEFINE entry == RemainingEntry(position, signed, price)
             profit == ClosedProfit(position, signed, price)
             exact == position.realized * Scale + profit
             realized == RoundedSigned(exact, Scale)
             error == Scale * realized - exact
  <2>1. /\ entry \in Nat /\ (held = 0 <=> entry = 0) /\ profit \in Int
        /\ profit + old * position.average + signed * price - held * entry = 0
    BY <1>1, <1>2, <1>3, <1>7, ClosingFill
  <2>2. position' = [quantity |-> held, average |-> entry, realized |-> realized]
    BY <1>7 DEF Fill, ApplyFill
  <2>3. rounding' = rounding + Scale
    BY <1>7 DEF Fill
  <2>4. held * entry \in Int
    BY <1>1, <1>2, <2>1
  <2>5. exact \in Int /\ exact = Scale * position.realized + profit
    <3> HIDE DEF profit
    <3>. QED BY <1>2, <2>1
  <2>6. realized \in Int /\ Scale * realized \in Int /\ -Scale <= 2 * error /\ 2 * error <= Scale
    <3>1. realized \in Int /\ -Scale <= 2 * (exact - Scale * realized) /\ 2 * (exact - Scale * realized) <= Scale
      <4> HIDE DEF exact
      <4>. QED BY <1>2, <2>5, RoundedSignedIsNear
    <3> HIDE DEF exact, realized
    <3>2. Scale * realized \in Int
      BY <1>2, <3>1
    <3>. QED BY <1>2, <2>5, <3>1, <3>2
  <2> HIDE DEF realized, exact
  <2>7. Drift' = Drift + error
    <3>1. Drift' = Scale * realized - ((cash - signed * price) + held * entry)
      BY <1>4, <2>2 DEF Drift
    <3>2. profit = held * entry - old * position.average - signed * price
      <4> HIDE DEF held, entry, profit
      <4>. QED BY <1>5, <2>1, <2>4
    <3> HIDE DEF held, entry, profit, signed
    <3>3. Drift = Scale * position.realized - (cash + old * position.average)
      BY DEF Drift
    <3> HIDE DEF old
    <3>. QED BY <1>2, <1>5, <2>1, <2>4, <2>5, <2>6, <3>1, <3>2, <3>3
  <2>8. BooksBalance'
    <3>1. error \in Int
      BY <2>5, <2>6
    <3> HIDE DEF error
    <3>. QED BY <1>2, <1>5, <2>3, <2>6, <2>7, <3>1 DEF BooksBalance, Drift
  <2>9. TypeOK'
    BY <1>1, <1>2, <1>4, <2>1, <2>2, <2>3, <2>6 DEF TypeOK, Position
  <2>10. FlatHasNoEntry'
    BY <2>1, <2>2 DEF FlatHasNoEntry
  <2>. QED BY <2>8, <2>9, <2>10
<1>. QED BY <1>6, <1>7

LEMMA NextBooks == IInv /\ [Next]_vars => IInv'
<1> SUFFICES ASSUME IInv, [Next]_vars PROVE IInv'
  OBVIOUS
<1>1. CASE Next
  BY <1>1, FillBooks DEF Next
<1>2. CASE UNCHANGED vars
  BY <1>2 DEF IInv, TypeOK, FlatHasNoEntry, BooksBalance, Drift, vars
<1>. QED BY <1>1, <1>2

\* The fields of a position keep their types: an entry price is never negative.
THEOREM TypeCorrect == Spec => []TypeOK
<1>1. IInv => TypeOK
  BY DEF IInv
<1>. QED BY InitBooks, NextBooks, <1>1, PTL DEF Spec

\* For any fills, in any order, the realized profit and the open cost account for
\* all cash that changed hands, up to half a last decimal of the entry price per
\* lot for each fill that averages and of the profit for each that closes.
THEOREM BooksAlwaysBalance == Spec => []BooksBalance
<1>1. IInv => BooksBalance
  BY DEF IInv
<1>. QED BY InitBooks, NextBooks, <1>1, PTL DEF Spec

\* A position has an entry price exactly when it holds lots.
THEOREM FlatNeverHasEntry == Spec => []FlatHasNoEntry
<1>1. IInv => FlatHasNoEntry
  BY DEF IInv
<1>. QED BY InitBooks, NextBooks, <1>1, PTL DEF Spec

----------------------------------------------------------------------------
\* What is rounded stays between whole bounds of the quotient.
LEMMA RoundedWithin ==
  ASSUME NEW n \in Nat, NEW d \in Nat \ {0}, NEW p \in Nat
  PROVE  /\ p * d <= n => p <= Rounded(n, d)
         /\ n <= p * d => Rounded(n, d) <= p
<1> DEFINE r == Rounded(n, d)
<1>1. r \in Nat /\ -d <= 2 * (n - d * r) /\ 2 * (n - d * r) <= d
  BY RoundedIsNear
<1> HIDE DEF r
<1>2. d * r \in Int /\ d * p \in Int /\ p * d = d * p
  BY <1>1
<1>3. r < p => d * r <= d * p - d
  <2>1. r + 1 <= p => d * (r + 1) <= d * p
    BY <1>1
  <2>2. d * (r + 1) = d * r + d
    BY <1>1
  <2>. QED BY <1>1, <1>2, <2>1, <2>2
<1>4. p < r => d * p <= d * r - d
  <2>1. p + 1 <= r => d * (p + 1) <= d * r
    BY <1>1
  <2>2. d * (p + 1) = d * p + d
    OBVIOUS
  <2>. QED BY <1>1, <1>2, <2>1, <2>2
<1>5. (d * p <= n => p <= r) /\ (n <= d * p => r <= p)
  BY <1>1, <1>2, <1>3, <1>4
<1>. QED BY <1>2, <1>5 DEF r

\* An averaged entry lies on the side of a bound where both what it averages are.
LEMMA AverageWithin ==
  ASSUME NEW old \in Int, NEW signed \in Int, signed # 0, old = 0 \/ SameSign(old, signed),
         NEW average \in Nat, NEW price \in Nat, NEW p \in Nat
  PROVE  LET entry == Rounded(Abs(old) * average + Abs(signed) * price, Abs(old + signed))
         IN /\ (old = 0 \/ p <= average) /\ p <= price => p <= entry
            /\ (old = 0 \/ average <= p) /\ price <= p => entry <= p
<1> DEFINE m == Abs(old)
           k == Abs(signed)
           n == m * average + k * price
<1>1. m \in Nat /\ k \in Nat \ {0} /\ Abs(old + signed) = m + k /\ (old = 0 => m = 0)
  BY DEF Abs, SameSign
<1> HIDE DEF m, k
<1>2. m * average \in Nat /\ k * price \in Nat /\ m * p \in Nat /\ k * p \in Nat /\ p * (m + k) = m * p + k * p
  BY <1>1
<1>3. /\ old = 0 \/ p <= average => m * p <= m * average
      /\ p <= price => k * p <= k * price
      /\ old = 0 \/ average <= p => m * average <= m * p
      /\ price <= p => k * price <= k * p
  BY <1>1
<1>4. m + k \in Nat \ {0} /\ n \in Nat
  BY <1>1, <1>2
<1>5. /\ p * (m + k) <= n => p <= Rounded(n, m + k)
      /\ n <= p * (m + k) => Rounded(n, m + k) <= p
  BY <1>4, RoundedWithin
<1>6. Rounded(Abs(old) * average + Abs(signed) * price, Abs(old + signed)) = Rounded(n, m + k)
  BY <1>1 DEF m, k
<1>7. /\ (old = 0 \/ p <= average) /\ p <= price => p * (m + k) <= n
      /\ (old = 0 \/ average <= p) /\ price <= p => n <= p * (m + k)
  BY <1>2, <1>3
<1> HIDE DEF n
<1>. QED BY <1>5, <1>6, <1>7

LEMMA FillEntries ==
  ASSUME IInv, EntryWithinEntries, NEW side \in Sides, NEW quantity \in Quantities, NEW price \in Prices,
         Fill(side, quantity, price)
  PROVE  EntryWithinEntries'
<1> DEFINE signed == SignedQuantity(side, quantity)
           old == position.quantity
           held == old + signed
<1>1. price \in Nat \ {0} /\ signed \in Int /\ signed # 0
  BY QuantitiesAssumption, PricesAssumption DEF SignedQuantity
<1>2. old \in Int /\ position.average \in Nat /\ entries \subseteq Nat
  BY PricesAssumption DEF IInv, TypeOK, Position
<1>3. CASE Averages(position, signed)
  <2> DEFINE entry == AveragedEntry(position, signed, price)
  <2>1. position'.average = entry /\ entries' = entries \cup {price}
    BY <1>3 DEF Fill, ApplyFill
  <2>2. ASSUME NEW p \in Nat
        PROVE  /\ (old = 0 \/ p <= position.average) /\ p <= price => p <= entry
               /\ (old = 0 \/ position.average <= p) /\ price <= p => entry <= p
    BY <1>1, <1>2, <1>3, <2>2, AverageWithin DEF Averages, AveragedEntry
  <2>3. \E p \in entries' : p <= entry
    <3>1. CASE old = 0
      BY <1>1, <2>1, <2>2, <3>1
    <3>2. CASE old # 0
      <4>1. PICK p \in entries : p <= position.average
        BY <3>2 DEF EntryWithinEntries
      <4>. QED BY <1>1, <1>2, <2>1, <2>2, <4>1
    <3>. QED BY <3>1, <3>2
  <2>4. \E p \in entries' : entry <= p
    <3>1. CASE old = 0
      BY <1>1, <2>1, <2>2, <3>1
    <3>2. CASE old # 0
      <4>1. PICK p \in entries : position.average <= p
        BY <3>2 DEF EntryWithinEntries
      <4>. QED BY <1>1, <1>2, <2>1, <2>2, <4>1
    <3>. QED BY <3>1, <3>2
  <2>. QED BY <2>1, <2>3, <2>4 DEF EntryWithinEntries
<1>4. CASE ~Averages(position, signed)
  <2>1. /\ position'.quantity = held
        /\ position'.average = RemainingEntry(position, signed, price)
        /\ entries' = CASE held = 0 -> {} [] SameSign(old, held) -> entries [] OTHER -> {price}
    BY <1>4 DEF Fill, ApplyFill
  <2>2. CASE held = 0
    BY <2>1, <2>2 DEF EntryWithinEntries
  <2>3. CASE held # 0 /\ SameSign(old, held)
    <3>1. entries' = entries /\ position'.average = position.average /\ old # 0
      BY <1>1, <1>2, <2>1, <2>3 DEF RemainingEntry, SameSign
    <3>. QED BY <3>1 DEF EntryWithinEntries
  <2>4. CASE held # 0 /\ ~SameSign(old, held)
    <3>1. entries' = {price} /\ position'.average = price
      BY <2>1, <2>4 DEF RemainingEntry
    <3>. QED BY <1>1, <3>1 DEF EntryWithinEntries
  <2>. QED BY <2>2, <2>3, <2>4
<1>. QED BY <1>3, <1>4

\* Through any averaging, partial close or flip the entry price of an open position
\* lies between two prices it was entered at since it was last flat or flipped.
THEOREM EntryStaysWithin == Spec => []EntryWithinEntries
<1>1. Init => EntryWithinEntries
  BY DEF Init, EmptyPosition, EntryWithinEntries
<1>2. IInv /\ EntryWithinEntries /\ [Next]_vars => EntryWithinEntries'
  <2> SUFFICES ASSUME IInv, EntryWithinEntries, [Next]_vars PROVE EntryWithinEntries'
    OBVIOUS
  <2>1. CASE Next
    BY <2>1, FillEntries DEF Next
  <2>2. CASE UNCHANGED vars
    BY <2>2 DEF EntryWithinEntries, vars
  <2>. QED BY <2>1, <2>2
<1>. QED BY <1>1, <1>2, InitBooks, NextBooks, PTL DEF Spec

\* A fill that realizes a profit or a loss takes lots off the side it closes.
THEOREM ProfitComesFromClosing == Spec => ProfitOnlyFromClosing
<1> DEFINE Closing == position'.realized # position.realized =>
             /\ position.quantity # 0
             /\ SameSign(position.quantity, position'.quantity) =>
                  Abs(position'.quantity) < Abs(position.quantity)
<1>1. ASSUME IInv, NEW side \in Sides, NEW quantity \in Quantities, NEW price \in Prices,
             Fill(side, quantity, price)
      PROVE  Closing
  <2> DEFINE signed == SignedQuantity(side, quantity)
  <2>1. signed \in Int /\ signed # 0 /\ position.quantity \in Int
    BY <1>1, QuantitiesAssumption DEF SignedQuantity, IInv, TypeOK, Position
  <2>2. position'.quantity = position.quantity + signed
    BY <1>1 DEF Fill, ApplyFill
  <2>3. CASE Averages(position, signed)
    BY <1>1, <2>3 DEF Fill, ApplyFill
  <2>4. CASE ~Averages(position, signed)
    BY <2>1, <2>2, <2>4 DEF Averages, SameSign, Abs
  <2>. QED BY <2>3, <2>4
<1>2. IInv /\ [Next]_vars => [Closing]_vars
  BY <1>1 DEF Next
<1>. QED BY <1>2, InitBooks, NextBooks, PTL DEF Spec, ProfitOnlyFromClosing

====
