---- MODULE ImproveLoop_proofs ----
(***************************************************************************)
(* The improvement loop for any prices, fee and limits: its type, the best *)
(* metric, the account of a backtest, and that a stop request is prompt.   *)
(***************************************************************************)
EXTENDS ImproveLoop, TLAPS

\* What holds of an account in a backtest, while lots are held too.
Accounted(a) ==
  /\ a \in Account
  /\ a.wins <= a.trades
  /\ LET worth == IF a.holding THEN a.quantity * a.entry ELSE a.capital
         unexplained == a.earned - FeeNum * a.moved - FeeDen * (worth - InitialCapital)
     IN 0 <= unexplained /\ unexplained <= a.lost
  /\ IF a.holding THEN a.capital = 0 ELSE a.quantity = 0
  /\ a.again = 0

\* What holds of it once the backtest is over.
Settled(a) == a \in Account /\ a.wins <= a.trades /\ Reported(a)

\* The account while candles are left, and when none is.
Books(n, a) == IF n > 0 THEN Accounted(a) ELSE Settled(a)

\* While rounds go on the plateau was not reached.
BelowPlateau == stage \notin {"disconnect", "down"} => stale < StaleLimit

\* A backtest that runs has candles left.
InWindow == stage = "bars" => left > 0

IInv == TypeOK /\ Books(left, account) /\ BelowPlateau /\ InWindow

----------------------------------------------------------------------------
\* Division rounds down, by less than the divisor.
LEMMA Division ==
  ASSUME NEW n \in Nat, NEW d \in Nat \ {0}
  PROVE  /\ n \div d \in Nat
         /\ d * (n \div d) <= n
         /\ n < d * (n \div d) + d
<1>1. n \div d \in Int /\ n % d \in 0 .. d - 1 /\ n = d * (n \div d) + (n % d)
  OBVIOUS
<1>2. n \div d >= 0
  BY <1>1
<1> QED BY <1>1, <1>2

\* A product of natural numbers is one, and grows with either.
LEMMA Products ==
  ASSUME NEW a \in Nat, NEW b \in Nat, NEW c \in Nat, b <= c
  PROVE  a * b \in Nat /\ a * b <= a * c
<1>1. a * c = a * b + a * (c - b) /\ a * (c - b) >= 0
  OBVIOUS
<1> QED BY <1>1

\* The win rate is a percentage.
LEMMA WinRateBounded ==
  ASSUME NEW a \in Account, a.wins <= a.trades
  PROVE  WinRate(a) \in 0 .. 100
<1>1. CASE a.trades = 0
  BY <1>1 DEF WinRate
<1>2. CASE a.trades # 0
  <2> DEFINE t == a.trades
             q == (100 * a.wins) \div t
  <2>1. t \in Nat \ {0} /\ a.wins \in Nat /\ a.wins <= t
    BY <1>2 DEF Account
  <2>2. q \in Nat /\ t * q <= 100 * a.wins
    BY <2>1, Division
  <2>3. q <= 100
    <3> SUFFICES ASSUME q >= 101 PROVE FALSE
      BY <2>2
    <3> HIDE DEF q, t
    <3>1. t * 101 <= t * q
      BY <2>1, <2>2, Products
    <3> QED BY <3>1, <2>1, <2>2
  <2> QED BY <1>2, <2>2, <2>3 DEF WinRate
<1> QED BY <1>1, <1>2

\* A new account is accounted for, and so is its result.
LEMMA NewAccounted == Accounted(NewAccount) /\ Settled(NewAccount)
BY FeeAssumption DEF Accounted, Settled, Reported, Accounts, NewAccount, Account

\* Buying keeps the account: what does not make a lot is lost.
LEMMA BoughtAccounted ==
  ASSUME NEW a, Accounted(a), ~a.holding, NEW price \in Nat \ {0}
  PROVE  Accounted(Bought(a, price))
<1> DEFINE b == Bought(a, price)
           q == Shares(a.capital, price)
<1>1. a \in Account
  BY DEF Accounted
<1>2. q \in Nat /\ price * q <= a.capital /\ a.capital < price * q + price
  BY <1>1, Division DEF Shares, Account
<1>3. /\ b.capital = 0 /\ b.quantity = q /\ b.entry = price /\ b.holding = TRUE
      /\ b.trades = a.trades /\ b.wins = a.wins /\ b.earned = a.earned /\ b.moved = a.moved
      /\ b.lost = a.lost + FeeDen * price /\ b.again = a.again
  BY <1>1 DEF Bought, Account
<1>4. b \in Account
  <2>1. FeeDen * price \in Nat
    BY FeeAssumption, Products
  <2> HIDE DEF q
  <2>2. a.lost + FeeDen * price \in Nat
    BY <1>1, <2>1 DEF Account
  <2> QED BY <1>1, <1>2, <2>2 DEF Bought, Account, q
<1>5. /\ FeeDen * (a.capital - q * price) >= 0
      /\ FeeDen * (a.capital - q * price) <= FeeDen * price
  <2>1. a.capital - q * price \in Nat /\ a.capital - q * price <= price
    BY <1>1, <1>2 DEF Account
  <2> QED BY <2>1, FeeAssumption, Products
<1>6. FeeDen * (q * price - InitialCapital)
        = FeeDen * (a.capital - InitialCapital) - FeeDen * (a.capital - q * price)
  BY <1>1, <1>2, FeeAssumption DEF Account
<1>7. LET u == a.earned - FeeNum * a.moved - FeeDen * (a.capital - InitialCapital)
      IN 0 <= u /\ u <= a.lost
  BY DEF Accounted
<1>8. LET u == b.earned - FeeNum * b.moved - FeeDen * (b.quantity * b.entry - InitialCapital)
      IN 0 <= u /\ u <= b.lost
  <2> DEFINE k == a.earned - FeeNum * a.moved
             x == FeeDen * (a.capital - InitialCapital)
             y == FeeDen * (a.capital - q * price)
             z == FeeDen * price
  <2>1. k \in Int /\ x \in Int /\ y \in Int /\ z \in Int /\ a.lost \in Int
    BY <1>1, <1>2, FeeAssumption DEF Account
  <2>2. 0 <= k - (x - y) /\ k - (x - y) <= a.lost + z
    <3> HIDE DEF k, x, y, z
    <3>1. 0 <= k - x /\ k - x <= a.lost /\ 0 <= y /\ y <= z
      BY <1>5, <1>7 DEF k, x, y, z
    <3> QED BY <2>1, <3>1
  <2>3. b.earned - FeeNum * b.moved - FeeDen * (b.quantity * b.entry - InitialCapital) = k - (x - y)
    BY <1>3, <1>6
  <2> QED BY <2>2, <2>3, <1>3
<1>9. b.wins <= b.trades
  BY <1>3 DEF Accounted
<1>10. Accounted(b)
  <2> HIDE DEF b
  <2> QED BY <1>3, <1>4, <1>8, <1>9 DEF Accounted
<1> QED BY <1>10

\* Selling keeps the account: the fee on the exit makes up for what the trade
\* reports but for its rounding.
LEMMA SoldAccounted ==
  ASSUME NEW a, Accounted(a), a.holding, NEW price \in Nat \ {0}
  PROVE  Accounted(Sold(a, price))
<1> DEFINE b == Sold(a, price)
           q == a.quantity
           e == a.entry
           g == Gross(q, price)
<1>1. a \in Account
  BY DEF Accounted
<1>2. q \in Nat /\ e \in Nat /\ a.earned \in Int /\ a.moved \in Int /\ a.lost \in Nat /\ a.trades \in Nat /\ a.wins \in Nat
  BY <1>1 DEF Account
<1>3. Profit(a, price) \in Int
  BY <1>2, FeeAssumption DEF Profit
<1>4. q * price * (FeeDen - FeeNum) \in Nat
  <2>1. FeeDen - FeeNum \in Nat /\ q * price \in Nat
    BY <1>2, FeeAssumption, Products
  <2> QED BY <2>1, Products
<1>5. /\ g \in Nat
      /\ FeeDen * g <= q * price * (FeeDen - FeeNum)
      /\ q * price * (FeeDen - FeeNum) < FeeDen * g + FeeDen
  BY <1>4, FeeAssumption, Division DEF Gross
<1>6. /\ b.capital = g /\ b.quantity = 0 /\ b.entry = e /\ b.holding = FALSE
      /\ b.trades = a.trades + 1 /\ b.wins \in {a.wins, a.wins + 1}
      /\ b.earned = a.earned + Profit(a, price) /\ b.moved = a.moved + (price - e) * q
      /\ b.lost = a.lost + FeeDen /\ b.again = a.again
  BY <1>1 DEF Sold, Account
<1>7. b \in Account
  <2>1. (price - e) * q \in Int
    BY <1>2
  <2>2. /\ a.earned + Profit(a, price) \in Int /\ a.moved + (price - e) * q \in Int
        /\ a.lost + FeeDen \in Nat /\ a.trades + 1 \in Nat
        /\ (IF Profit(a, price) > 0 THEN a.wins + 1 ELSE a.wins) \in Nat
    BY <1>2, <1>3, <2>1, FeeAssumption
  <2> QED BY <1>1, <1>5, <2>2 DEF Sold, Account
<1>8. LET u == a.earned - FeeNum * a.moved - FeeDen * (q * e - InitialCapital)
      IN 0 <= u /\ u <= a.lost
  BY DEF Accounted
<1>9. b.earned - FeeNum * b.moved - FeeDen * (b.capital - InitialCapital)
        = (a.earned - FeeNum * a.moved - FeeDen * (q * e - InitialCapital))
          + (q * price * (FeeDen - FeeNum) - FeeDen * g)
  <2>1. Profit(a, price) = FeeDen * ((price - e) * q) - FeeNum * (e * q)
    BY DEF Profit
  <2> HIDE DEF g, q, e, b
  <2> QED BY <1>2, <1>5, <1>6, <2>1, FeeAssumption
<1>10. LET u == b.earned - FeeNum * b.moved - FeeDen * (b.capital - InitialCapital)
       IN 0 <= u /\ u <= b.lost
  <2> DEFINE u == a.earned - FeeNum * a.moved - FeeDen * (q * e - InitialCapital)
             s == q * price * (FeeDen - FeeNum) - FeeDen * g
  <2>1. u \in Int /\ s \in Int /\ 0 <= s /\ s <= FeeDen
    BY <1>2, <1>4, <1>5, FeeAssumption
  <2>2. 0 <= u + s /\ u + s <= a.lost + FeeDen
    <3> HIDE DEF u, s
    <3>1. 0 <= u /\ u <= a.lost
      BY <1>8 DEF u
    <3> QED BY <1>2, <2>1, <3>1, FeeAssumption
  <2> QED BY <1>6, <1>9, <2>2
<1>11. b.wins <= b.trades
  BY <1>2, <1>6 DEF Accounted
<1>12. Accounted(b)
  <2> HIDE DEF b
  <2> QED BY <1>6, <1>7, <1>10, <1>11 DEF Accounted
<1> QED BY <1>12

\* A candle keeps the account, whatever the strategy says of it.
LEMMA CandleAccounted ==
  ASSUME NEW a, Accounted(a), NEW price \in Nat \ {0}, NEW direction \in Directions
  PROVE  Accounted(Candle(a, price, direction))
<1>1. a.holding \in BOOLEAN
  BY DEF Accounted, Account
<1> QED BY <1>1, BoughtAccounted, SoldAccounted DEF Candle

\* The result reports what the books say, once the lots it counts again are left out.
LEMMA ResultSettled ==
  ASSUME NEW a, Accounted(a), NEW price \in Nat \ {0}
  PROVE  Settled(Result(a, price))
<1> DEFINE b == Result(a, price)
<1>1. a \in Account /\ a.holding \in BOOLEAN
  BY DEF Accounted, Account
<1>2. CASE a.holding
  <2> DEFINE s == Sold(a, price)
             q == a.quantity * price
  <2>1. Accounted(s) /\ s \in Account /\ ~s.holding
    <3>1. Accounted(s)
      BY <1>2, SoldAccounted
    <3>2. ~s.holding
      BY <1>1 DEF Sold, Account
    <3> HIDE DEF s
    <3> QED BY <3>1, <3>2 DEF Accounted
  <2>2. q \in Nat /\ a.quantity \in Nat
    BY <1>1, Products DEF Account
  <2>3. b = [s EXCEPT !.holding = TRUE, !.quantity = a.quantity, !.again = q, !.final = s.capital + q]
    <3> HIDE DEF s
    <3> QED BY <1>2, <2>1 DEF Result, ClosedOut, FinalCapital, Account, s
  <2>4. /\ b \in Account /\ b.wins = s.wins /\ b.trades = s.trades /\ b.earned = s.earned
        /\ b.moved = s.moved /\ b.lost = s.lost /\ b.final - b.again = s.capital
    <3> HIDE DEF s, b, q
    <3>1. s.capital \in Nat /\ s.capital + q \in Nat
      BY <2>1, <2>2 DEF Account
    <3> DEFINE f == s.capital + q
    <3>2. b = [s EXCEPT !.holding = TRUE, !.quantity = a.quantity, !.again = q, !.final = f]
      BY <2>3
    <3>3. f - q = s.capital
      BY <2>2, <3>1
    <3>4. f \in Nat
      BY <3>1
    <3> HIDE DEF f
    <3>5. b \in Account
      BY <2>1, <2>2, <3>2, <3>4 DEF Account
    <3>6. /\ b.wins = s.wins /\ b.trades = s.trades /\ b.earned = s.earned
          /\ b.moved = s.moved /\ b.lost = s.lost /\ b.final = f /\ b.again = q
      BY <2>1, <3>2 DEF Account
    <3> QED BY <3>3, <3>5, <3>6
  <2>5. s.wins <= s.trades /\ Accounts(s, s.capital)
    <3> HIDE DEF s
    <3> QED BY <2>1 DEF Accounted, Accounts
  <2> HIDE DEF b, s
  <2> QED BY <2>4, <2>5 DEF Settled, Reported, Accounts, b
<1>3. CASE ~a.holding
  <2>1. b = [a EXCEPT !.final = a.capital]
    BY <1>3 DEF Result, ClosedOut, FinalCapital
  <2>2. /\ b \in Account /\ b.wins = a.wins /\ b.trades = a.trades /\ b.earned = a.earned
        /\ b.moved = a.moved /\ b.lost = a.lost /\ b.final - b.again = a.capital
    <3> HIDE DEF b
    <3> QED BY <1>1, <2>1 DEF Account, Accounted
  <2>3. a.wins <= a.trades /\ Accounts(a, a.capital)
    BY <1>3 DEF Accounted, Accounts
  <2> HIDE DEF b
  <2> QED BY <2>2, <2>3 DEF Settled, Reported, Accounts, b
<1> QED BY <1>1, <1>2, <1>3

----------------------------------------------------------------------------
\* Recording a metric keeps the type and stays below the plateau or stops.
LEMMA Recorded ==
  ASSUME NEW metric \in 0 .. 100, TypeOK, stale < StaleLimit, Record(metric)
  PROVE  /\ best' \in 0 .. 100 /\ stale' \in 0 .. StaleLimit /\ rounds' = rounds
         /\ stage' \in Stages /\ stage' # "bars"
         /\ stage' \notin {"disconnect", "down"} => stale' < StaleLimit
<1>1. best' \in 0 .. 100
  BY DEF Record, Improves, TypeOK
<1>2. stale' \in 0 .. StaleLimit
  BY LoopAssumption DEF Record, TypeOK
<1>3. /\ rounds' = rounds /\ stage' \in Stages /\ stage' # "bars"
      /\ stage' \notin {"disconnect", "down"} => stale' < StaleLimit
  BY <1>2, LoopAssumption DEF Record, Stages
<1> QED BY <1>1, <1>2, <1>3

\* A failed round records a metric in range.
LEMMA FailedMetric ==
  ASSUME TypeOK
  PROVE  (IF best = NoBest THEN 0 ELSE best) \in 0 .. 100
BY DEF TypeOK

\* The head of the loop starts a round or leaves.
LEMMA HeadType ==
  ASSUME TypeOK, Head
  PROVE  rounds' \in 0 .. Horizon /\ stage' \in {"disconnect", "query"}
BY LoopAssumption DEF TypeOK, Head, Counted

\* The worker starts with the invariant.
LEMMA InitIInv == Init => IInv
<1> SUFFICES ASSUME Init PROVE IInv
  OBVIOUS
<1>1. Books(left, account)
  BY NewAccounted DEF Init, Books
<1>2. TypeOK
  <2>1. account \in Account
    BY NewAccounted DEF Init, Accounted
  <2>2. stale \in 0 .. StaleLimit /\ rounds \in 0 .. Horizon /\ left \in 0 .. MaxCandles
    BY LoopAssumption DEF Init
  <2>3. limit \in Limits /\ stop \in BOOLEAN /\ stage \in Stages
    BY DEF Init, Stages
  <2>4. best \in 0 .. 100 \cup {NoBest} /\ scores \in SUBSET (0 .. 100)
    BY DEF Init
  <2> QED BY <2>1, <2>2, <2>3, <2>4 DEF TypeOK
<1>3. BelowPlateau
  BY LoopAssumption DEF Init, BelowPlateau
<1>4. InWindow
  BY DEF Init, InWindow
<1> QED BY <1>1, <1>2, <1>3, <1>4 DEF IInv

\* Every step keeps the type, the account and the plateau.
LEMMA StepIInv == IInv /\ [Next]_vars => IInv'
<1> SUFFICES ASSUME IInv, [Next]_vars PROVE IInv'
  OBVIOUS
<1> USE DEF IInv
<1>0. ASSUME NEW metric \in 0 .. 100, Record(metric), stage \in Round \cup {"connect", "wait"},
             UNCHANGED <<limit, stop, backtest>>, scores' \in {scores, scores \cup {metric}}
      PROVE  IInv'
  <2>1. stale < StaleLimit
    BY <1>0 DEF BelowPlateau, Round
  <2>2. TypeOK'
    BY <1>0, <2>1, Recorded DEF TypeOK, backtest
  <2>3. BelowPlateau'
    BY <1>0, <2>1, Recorded DEF BelowPlateau
  <2>4. InWindow'
    BY <1>0, <2>1, Recorded DEF InWindow
  <2> QED BY <1>0, <2>2, <2>3, <2>4 DEF backtest
<1>1. ASSUME Fails, stage \in Round, UNCHANGED <<limit, stop, backtest>>
      PROVE  IInv'
  BY <1>0, <1>1, FailedMetric DEF Fails
<1>2. ASSUME NEW s \in Stages \ {"bars"}, stage' = s, stage \notin {"disconnect", "down"},
             UNCHANGED <<limit, stop, loop, backtest, scores>>
      PROVE  IInv'
  BY <1>2 DEF TypeOK, BelowPlateau, InWindow, loop, backtest
<1>3. CASE Connect
  <2>1. stale < StaleLimit /\ stage = "connect"
    BY <1>3 DEF Connect, BelowPlateau
  <2>2. rounds' \in 0 .. Horizon /\ stage' \in {"disconnect", "query", "down"}
    BY <1>3, HeadType DEF Connect, TypeOK
  <2> QED BY <1>3, <2>1, <2>2 DEF Connect, TypeOK, BelowPlateau, InWindow, Stages, Round, backtest
<1>4. CASE QueryCandles
  <2>1. CASE Scores(0) /\ UNCHANGED <<limit, stop, backtest>>
    BY <1>0, <1>4, <2>1 DEF QueryCandles, Scores, Round
  <2> QED BY <1>2, <1>4, <2>1 DEF QueryCandles, Stages, Round
<1>5. CASE ListStrategies
  <2>1. CASE Scores(0) /\ UNCHANGED <<limit, stop, backtest>>
    BY <1>0, <1>5, <2>1 DEF ListStrategies, Scores, Round
  <2> QED BY <1>2, <1>5, <2>1 DEF ListStrategies, Stages, Round
<1>6. CASE RequireStrategy
  <2>1. CASE Fails
    BY <1>1, <1>6, <2>1 DEF RequireStrategy, Round
  <2> QED BY <1>2, <1>6, <2>1 DEF RequireStrategy, Stages, Round
<1>7. CASE ReadCandles
  <2> PICK n \in 0 .. MaxCandles :
        IF n < MinCandles
          THEN Scores(0) /\ UNCHANGED backtest
          ELSE /\ stage' = "bars" /\ left' = n /\ account' = NewAccount
               /\ UNCHANGED <<loop, scores>>
    BY <1>7 DEF ReadCandles
  <2>1. CASE n < MinCandles
    BY <1>0, <1>7, <2>1 DEF ReadCandles, Scores, Round
  <2>2. CASE ~(n < MinCandles)
    <3>1. Accounted(account') /\ account' \in Account
      BY <2>2, NewAccounted DEF Accounted
    <3>2. stale < StaleLimit
      BY <1>7 DEF ReadCandles, BelowPlateau
    <3>3. Books(left, account)'
      BY <2>2, <3>1, LoopAssumption DEF Books
    <3>4. TypeOK'
      BY <1>7, <2>2, <3>1 DEF ReadCandles, TypeOK, Stages, Round, loop
    <3>5. BelowPlateau' /\ InWindow'
      BY <1>7, <2>2, <3>2, LoopAssumption DEF ReadCandles, BelowPlateau, InWindow, loop
    <3> QED BY <3>3, <3>4, <3>5
  <2> QED BY <2>1, <2>2
<1>8. CASE Bar
  <2> PICK price \in Prices, direction \in Directions :
        LET a == Candle(account, price, direction)
        IN IF left > 1
             THEN account' = a /\ left' = left - 1 /\ UNCHANGED stage
             ELSE account' = Result(a, price) /\ left' = 0 /\ stage' = "publish"
    BY <1>8 DEF Bar
  <2>1. price \in Nat \ {0}
    BY LoopAssumption
  <2>2. Accounted(Candle(account, price, direction))
    BY <1>8, <2>1, CandleAccounted DEF Bar, Books, InWindow
  <2>3. Books(left, account)' /\ account' \in Account
    <3>1. CASE left > 1
      BY <2>2, <3>1 DEF Books, TypeOK, Accounted
    <3>2. CASE ~(left > 1)
      BY <2>1, <2>2, <3>2, ResultSettled DEF Books, Settled
    <3> QED BY <3>1, <3>2
  <2>4. left' \in 0 .. MaxCandles /\ stage' \in {"bars", "publish"}
    BY <1>8, LoopAssumption DEF Bar, TypeOK
  <2>5. stale < StaleLimit /\ InWindow'
    BY <1>8, LoopAssumption DEF Bar, BelowPlateau, InWindow, TypeOK
  <2> HIDE DEF IInv
  <2>6. TypeOK /\ BelowPlateau
    BY DEF IInv
  <2>7. TypeOK'
    BY <1>8, <2>3, <2>4, <2>6 DEF Bar, TypeOK, Stages, Round, loop
  <2>8. BelowPlateau'
    BY <1>8, <2>5 DEF Bar, BelowPlateau, loop
  <2> QED BY <2>3, <2>5, <2>7, <2>8 DEF IInv
<1>9. CASE PublishCompleted
  <2>1. WinRate(account) \in 0 .. 100
    BY WinRateBounded DEF Books, Accounted, Settled
  <2> QED BY <1>0, <1>9, <2>1 DEF PublishCompleted, Scores, Round
<1>10. CASE RoundFails
  BY <1>1, <1>10 DEF RoundFails
<1>11. CASE WaitEnds
  <2>1. stale < StaleLimit /\ stage = "wait"
    BY <1>11 DEF WaitEnds, BelowPlateau
  <2>2. rounds' \in 0 .. Horizon /\ stage' \in {"disconnect", "query"}
    BY <1>11, HeadType DEF WaitEnds
  <2> QED BY <1>11, <2>1, <2>2 DEF WaitEnds, TypeOK, BelowPlateau, InWindow, Stages, Round, backtest
<1>12. CASE Disconnect
  BY <1>12 DEF Disconnect, TypeOK, BelowPlateau, InWindow, Stages, loop, backtest
<1>13. CASE RequestStop
  BY <1>13 DEF RequestStop, TypeOK, BelowPlateau, InWindow, loop, backtest
<1>14. CASE UNCHANGED vars
  BY <1>14 DEF vars, TypeOK, BelowPlateau, InWindow, loop, backtest
<1> QED BY <1>3, <1>4, <1>5, <1>6, <1>7, <1>8, <1>9, <1>10, <1>11, <1>12, <1>13, <1>14 DEF Next, Work

\* The strengthening that carries the theorems below.
THEOREM IInvHolds == Spec => []IInv
BY InitIInv, StepIInv, PTL DEF Spec

\* Every variable has its type, the metrics are percentages and stale stays
\* within max_stale_rounds, for all prices, fees and limits.
THEOREM LoopTypes == Spec => []TypeOK
<1>1. IInv => TypeOK
  BY DEF IInv
<1> QED BY <1>1, IInvHolds, PTL

\* The trades of a backtest explain its capital through any candles and
\* signals, and the capital it reports but for what it counts once more, up to
\* what division rounds away.
THEOREM TradesExplain == Spec => []TradesExplainCapital
<1>1. IInv => TradesExplainCapital
  <2> SUFFICES ASSUME IInv PROVE TradesExplainCapital
    OBVIOUS
  <2>1. Books(left, account)
    BY DEF IInv
  <2>2. CASE left > 0
    BY <2>1, <2>2 DEF TradesExplainCapital, Explained, Books, Accounted, Accounts
  <2>3. CASE ~(left > 0)
    BY <2>1, <2>3 DEF TradesExplainCapital, Books, Settled
  <2> QED BY <2>1, <2>2, <2>3
<1> QED BY <1>1, IInvHolds, PTL

\* best is the greatest metric of the rounds that did not fail, or 0.
THEOREM BestGreatest == Spec => []BestIsGreatest
<1>1. Init => BestIsGreatest
  BY LoopAssumption DEF Init, BestIsGreatest
<1>2. IInv /\ BestIsGreatest /\ [Next]_vars => BestIsGreatest'
  <2> SUFFICES ASSUME IInv, BestIsGreatest, [Next]_vars PROVE BestIsGreatest'
    OBVIOUS
  <2>1. TypeOK /\ best \in 0 .. 100 \cup {NoBest} /\ scores \in SUBSET (0 .. 100) /\ NoBest \notin Nat
    BY LoopAssumption DEF IInv, TypeOK
  <2>2. ASSUME NEW metric \in 0 .. 100, Scores(metric) PROVE BestIsGreatest'
    BY <2>1, <2>2 DEF Scores, Record, Improves, BestIsGreatest
  <2>3. ASSUME Fails PROVE BestIsGreatest'
    BY <2>1, <2>3 DEF Fails, Record, Improves, BestIsGreatest
  <2>4. ASSUME UNCHANGED <<best, scores>> PROVE BestIsGreatest'
    BY <2>4 DEF BestIsGreatest
  <2>5. WinRate(account) \in 0 .. 100
    BY WinRateBounded DEF IInv, Books, Accounted, Settled
  <2>6. CASE QueryCandles
    BY <2>2, <2>4, <2>6 DEF QueryCandles, loop
  <2>7. CASE ListStrategies
    BY <2>2, <2>4, <2>7 DEF ListStrategies, loop
  <2>8. CASE RequireStrategy
    BY <2>3, <2>4, <2>8 DEF RequireStrategy, loop
  <2>9. CASE ReadCandles
    BY <2>2, <2>4, <2>9 DEF ReadCandles, loop
  <2>10. CASE PublishCompleted
    BY <2>2, <2>5, <2>10 DEF PublishCompleted
  <2>11. CASE RoundFails
    BY <2>3, <2>11 DEF RoundFails
  <2>12. CASE Connect \/ Bar \/ WaitEnds \/ Disconnect \/ RequestStop \/ UNCHANGED vars
    BY <2>4, <2>12 DEF Connect, Bar, WaitEnds, Disconnect, RequestStop, vars, loop
  <2> QED BY <2>6, <2>7, <2>8, <2>9, <2>10, <2>11, <2>12 DEF Next, Work
<1> QED BY <1>1, <1>2, IInvHolds, PTL DEF Spec

\* After a stop request no round begins.
THEOREM StopPrompt == Spec => StopIsPrompt
<1>1. [Next]_vars => [stop => rounds' = rounds]_vars
  <2> SUFFICES ASSUME [Next]_vars, stop PROVE rounds' = rounds
    BY DEF vars
  <2>1. ASSUME Head PROVE rounds' = rounds
    BY <2>1 DEF Head
  <2>2. ASSUME NEW metric, Record(metric) PROVE rounds' = rounds
    BY <2>2 DEF Record
  <2>3. CASE Connect \/ WaitEnds
    BY <2>1, <2>3 DEF Connect, WaitEnds
  <2>4. CASE QueryCandles \/ ListStrategies \/ RequireStrategy \/ ReadCandles \/ PublishCompleted \/ RoundFails
    BY <2>2, <2>4 DEF QueryCandles, ListStrategies, RequireStrategy, ReadCandles, PublishCompleted, RoundFails,
                      Scores, Fails, loop
  <2>5. CASE Bar \/ Disconnect \/ RequestStop \/ UNCHANGED vars
    BY <2>5 DEF Bar, Disconnect, RequestStop, vars, loop
  <2> QED BY <2>3, <2>4, <2>5 DEF Next, Work
<1> QED BY <1>1, PTL DEF Spec, StopIsPrompt
====
